---- MODULE Spec2Model ----
(***************************************************************************)
(* Credit accounting, reward claims, subscription webhook and the tool     *)
(* execution pipeline of the smart-keyboard backend (convex/devices.ts,    *)
(* convex/tools.ts, convex/toolUsage.ts, convex/http.ts).                  *)
(*                                                                         *)
(* The store is the two Convex tables "devices" and "toolUsage".  Every    *)
(* Convex query or mutation is one atomic step; an action (httpAction,     *)
(* action) is a sequence of such steps and other requests interleave at    *)
(* every await.                                                            *)
(***************************************************************************)
EXTENDS Integers, Sequences, FiniteSets, Bags, TLC

VARIABLES
  devices,    \* table "devices": sequence of documents, _id = position
  toolUsage,  \* table "toolUsage": bag of [deviceId, toolId, createdAt]
  now,        \* Date.now(), in ms
  env,        \* process.env: KILL_SWITCH, OPENROUTER_API_KEY, REVENUECAT_WEBHOOK_SECRET
  req,        \* tool execution requests (streaming endpoint and executeTool action)
  trace       \* observed calls of the other endpoints, with what they returned

vars == <<devices, toolUsage, now, env, req, trace>>

-----------------------------------------------------------------------------
(* Bounds of the model                                                     *)

MaxReqs == 2          \* execution requests per behaviour
MaxChunks == 2        \* provider stream chunks per request
InitCredits == 1      \* largest credit balance of a device drawn by Init
MaxCalls == 1         \* calls recorded in trace under Spec
MaxClaimCalls == 4    \* calls recorded in trace under SpecClaims
MaxRollingCalls == 7  \* calls recorded in trace under SpecRolling
MaxSubsCalls == 4
MaxRaceCalls == 3     \* calls recorded in trace under SpecSubs
Epoch == 100000       \* Date.now() of the initial state

-----------------------------------------------------------------------------
(* Values                                                                  *)

Undefined == -1             \* an unset optional number field
NoString == "undefined"     \* an unset optional string field
Null == [null |-> TRUE]     \* a query that found no document

TWENTY_FOUR_HOURS == 24 * 60 * 60 * 1000
DAILY_REWARD == 5
ONE_TIME_REWARD == 20
AD_WATCH_REWARD == 5
AD_WATCH_CAP == 5
BONUS_AD_REWARD == 10
BONUS_AD_CAP == 3
MAX_ID_LENGTH == 255

\* A string longer than 255 characters, and the length of an id.
LongId == "id-of-256-chars"
IdLength(id) == IF id = LongId THEN 256 ELSE 2

\* JavaScript truthiness of an optional number / optional string.
TruthyNum(x) == x # Undefined /\ x # 0
TruthyStr(s) == s # NoString /\ s # ""

\* Number of documents of bag B among the records S.
Copies(B, S) == BagCardinality([x \in S |-> CopiesIn(x, B)])

-----------------------------------------------------------------------------
(* The devices table and its indexes                                       *)

\* .withIndex("by_deviceId", q => q.eq("deviceId", id)): the matching _ids
by_deviceId(id) == {i \in DOMAIN devices : devices[i].deviceId = id}
by_revenueCatId(id) == {i \in DOMAIN devices : devices[i].revenueCatId = id}

\* .unique(): null for no match, the one match, an exception for several
UniqueThrows(S) == Cardinality(S) > 1
Unique(S) == IF S = {} THEN 0 ELSE CHOOSE i \in S : TRUE

\* ctx.db.patch(_id, fields)
Patch(tbl, i, fields) ==
  [tbl EXCEPT ![i] = [f \in DOMAIN tbl[i] |->
                        IF f \in DOMAIN fields THEN fields[f] ELSE tbl[i][f]]]

\* The stored credits of a device (0 when it has no document).
CreditsOf(tbl, deviceId) ==
  LET S == {i \in DOMAIN tbl : tbl[i].deviceId = deviceId} IN
  IF S = {} THEN 0 ELSE tbl[CHOOSE i \in S : TRUE].credits

NewDevice(deviceId, revenueCatId) ==
  [ deviceId |-> deviceId,
    revenueCatId |-> revenueCatId,
    credits |-> 0,
    isPro |-> FALSE,
    lastCreditClaimDate |-> NoString,
    lastCreditClaimTimestamp |-> Undefined,
    hasClaimedKeyboardSetupReward |-> FALSE,
    adWatchSessionsToday |-> 0,
    lastAdWatchResetTimestamp |-> Undefined,
    bonusAdClaimsToday |-> 0,
    lastBonusAdResetTimestamp |-> Undefined,
    hasClaimedReviewReward |-> FALSE,
    createdAt |-> now ]

\* What a mutation hands back: the table after it and the value returned.
\* An exception rolls the transaction back.
Returned(op, deviceId, tbl, claimed, credits, isPro) ==
  [ db |-> tbl,
    ret |-> [op |-> op, deviceId |-> deviceId, at |-> now, outcome |-> "ok",
             claimed |-> claimed, credits |-> credits, isPro |-> isPro,
             status |-> 0, error |-> "none", arg |-> "none"] ]
Threw(op, deviceId) ==
  [ db |-> devices,
    ret |-> [op |-> op, deviceId |-> deviceId, at |-> now, outcome |-> "threw",
             claimed |-> FALSE, credits |-> 0, isPro |-> FALSE,
             status |-> 0, error |-> "exception", arg |-> "none"] ]

-----------------------------------------------------------------------------
(* devices.ts: the public mutations                                        *)

\* registerDevice that stores the billing id argument whatever it is
registerDeviceOverwrites(deviceId, revenueCatId) ==
  IF \/ IdLength(deviceId) > MAX_ID_LENGTH
     \/ (TruthyStr(revenueCatId) /\ IdLength(revenueCatId) > MAX_ID_LENGTH)
     \/ UniqueThrows(by_deviceId(deviceId))
  THEN Threw("registerDevice", deviceId)
  ELSE LET i == Unique(by_deviceId(deviceId)) IN
    IF i # 0
    THEN LET existing == devices[i] IN
         Returned("registerDevice", deviceId,
                  Patch(devices, i, [revenueCatId |-> revenueCatId]),
                  FALSE, existing.credits, existing.isPro)
    ELSE Returned("registerDevice", deviceId,
                  Append(devices, NewDevice(deviceId, revenueCatId)),
                  FALSE, 0, FALSE)

\* registerDevice clearing the credits of a device it finds and does not relink
registerDeviceResets(deviceId, revenueCatId) ==
  IF \/ IdLength(deviceId) > MAX_ID_LENGTH
     \/ (TruthyStr(revenueCatId) /\ IdLength(revenueCatId) > MAX_ID_LENGTH)
     \/ UniqueThrows(by_deviceId(deviceId))
  THEN Threw("registerDevice", deviceId)
  ELSE LET i == Unique(by_deviceId(deviceId)) IN
    IF i # 0
    THEN LET existing == devices[i] IN
         Returned("registerDevice", deviceId,
                  IF TruthyStr(revenueCatId) /\ existing.revenueCatId # revenueCatId
                  THEN Patch(devices, i, [revenueCatId |-> revenueCatId])
                  ELSE Patch(devices, i, [credits |-> 0]),
                  FALSE, existing.credits, existing.isPro)
    ELSE Returned("registerDevice", deviceId,
                  Append(devices, NewDevice(deviceId, revenueCatId)),
                  FALSE, 0, FALSE)

\* registerDevice inserting without looking for an existing record
registerDeviceAlwaysInserts(deviceId, revenueCatId) ==
  IF \/ IdLength(deviceId) > MAX_ID_LENGTH
     \/ (TruthyStr(revenueCatId) /\ IdLength(revenueCatId) > MAX_ID_LENGTH)
     \/ UniqueThrows(by_deviceId(deviceId))
  THEN Threw("registerDevice", deviceId)
  ELSE LET i == Unique(by_deviceId(deviceId)) IN
    IF FALSE
    THEN LET existing == devices[i] IN
         Returned("registerDevice", deviceId,
                  IF TruthyStr(revenueCatId) /\ existing.revenueCatId # revenueCatId
                  THEN Patch(devices, i, [revenueCatId |-> revenueCatId])
                  ELSE devices,
                  FALSE, existing.credits, existing.isPro)
    ELSE Returned("registerDevice", deviceId,
                  Append(devices, NewDevice(deviceId, revenueCatId)),
                  FALSE, 0, FALSE)

registerDevice(deviceId, revenueCatId) ==
  IF \/ IdLength(deviceId) > MAX_ID_LENGTH
     \/ (TruthyStr(revenueCatId) /\ IdLength(revenueCatId) > MAX_ID_LENGTH)
     \/ UniqueThrows(by_deviceId(deviceId))
  THEN Threw("registerDevice", deviceId)
  ELSE LET i == Unique(by_deviceId(deviceId)) IN
    IF i # 0
    THEN LET existing == devices[i] IN
         Returned("registerDevice", deviceId,
                  IF TruthyStr(revenueCatId) /\ existing.revenueCatId # revenueCatId
                  THEN Patch(devices, i, [revenueCatId |-> revenueCatId])
                  ELSE devices,
                  FALSE, existing.credits, existing.isPro)
    ELSE Returned("registerDevice", deviceId,
                  Append(devices, NewDevice(deviceId, revenueCatId)),
                  FALSE, 0, FALSE)

\* claimDailyCredits that still rejects at exactly 24 hours
claimDailyCreditsStrict(deviceId, todayDate) ==
  IF UniqueThrows(by_deviceId(deviceId)) \/ by_deviceId(deviceId) = {}
  THEN Threw("claimDailyCredits", deviceId)
  ELSE LET i == Unique(by_deviceId(deviceId))
           device == devices[i] IN
    IF /\ TruthyNum(device.lastCreditClaimTimestamp)
       /\ now - device.lastCreditClaimTimestamp <= TWENTY_FOUR_HOURS
    THEN Returned("claimDailyCredits", deviceId, devices,
                  FALSE, device.credits, device.isPro)
    ELSE LET newCredits == device.credits + DAILY_REWARD IN
         Returned("claimDailyCredits", deviceId,
                  Patch(devices, i, [credits |-> newCredits,
                                     lastCreditClaimDate |-> todayDate,
                                     lastCreditClaimTimestamp |-> now]),
                  TRUE, newCredits, device.isPro)

\* claimDailyCredits restarting the wait on a rejected attempt
claimDailyCreditsPostpones(deviceId, todayDate) ==
  IF UniqueThrows(by_deviceId(deviceId)) \/ by_deviceId(deviceId) = {}
  THEN Threw("claimDailyCredits", deviceId)
  ELSE LET i == Unique(by_deviceId(deviceId))
           device == devices[i] IN
    IF /\ TruthyNum(device.lastCreditClaimTimestamp)
       /\ now - device.lastCreditClaimTimestamp < TWENTY_FOUR_HOURS
    THEN Returned("claimDailyCredits", deviceId,
                  Patch(devices, i, [lastCreditClaimTimestamp |-> now]),
                  FALSE, device.credits, device.isPro)
    ELSE LET newCredits == device.credits + DAILY_REWARD IN
         Returned("claimDailyCredits", deviceId,
                  Patch(devices, i, [credits |-> newCredits,
                                     lastCreditClaimDate |-> todayDate,
                                     lastCreditClaimTimestamp |-> now]),
                  TRUE, newCredits, device.isPro)

claimDailyCredits(deviceId, todayDate) ==
  IF UniqueThrows(by_deviceId(deviceId)) \/ by_deviceId(deviceId) = {}
  THEN Threw("claimDailyCredits", deviceId)
  ELSE LET i == Unique(by_deviceId(deviceId))
           device == devices[i] IN
    IF /\ TruthyNum(device.lastCreditClaimTimestamp)
       /\ now - device.lastCreditClaimTimestamp < TWENTY_FOUR_HOURS
    THEN Returned("claimDailyCredits", deviceId, devices,
                  FALSE, device.credits, device.isPro)
    ELSE LET newCredits == device.credits + DAILY_REWARD IN
         Returned("claimDailyCredits", deviceId,
                  Patch(devices, i, [credits |-> newCredits,
                                     lastCreditClaimDate |-> todayDate,
                                     lastCreditClaimTimestamp |-> now]),
                  TRUE, newCredits, device.isPro)

\* claimKeyboardSetupReward that forgets to set the flag
claimKeyboardSetupRewardNoFlag(deviceId) ==
  IF UniqueThrows(by_deviceId(deviceId)) \/ by_deviceId(deviceId) = {}
  THEN Threw("claimKeyboardSetupReward", deviceId)
  ELSE LET i == Unique(by_deviceId(deviceId))
           device == devices[i] IN
    IF device.hasClaimedKeyboardSetupReward
    THEN Returned("claimKeyboardSetupReward", deviceId, devices,
                  FALSE, device.credits, device.isPro)
    ELSE LET newCredits == device.credits + ONE_TIME_REWARD IN
         Returned("claimKeyboardSetupReward", deviceId,
                  Patch(devices, i, [credits |-> newCredits]),
                  TRUE, newCredits, device.isPro)

claimKeyboardSetupReward(deviceId) ==
  IF UniqueThrows(by_deviceId(deviceId)) \/ by_deviceId(deviceId) = {}
  THEN Threw("claimKeyboardSetupReward", deviceId)
  ELSE LET i == Unique(by_deviceId(deviceId))
           device == devices[i] IN
    IF device.hasClaimedKeyboardSetupReward
    THEN Returned("claimKeyboardSetupReward", deviceId, devices,
                  FALSE, device.credits, device.isPro)
    ELSE LET newCredits == device.credits + ONE_TIME_REWARD IN
         Returned("claimKeyboardSetupReward", deviceId,
                  Patch(devices, i, [credits |-> newCredits,
                                     hasClaimedKeyboardSetupReward |-> TRUE]),
                  TRUE, newCredits, device.isPro)

\* claimAdWatchReward whose cap test is off by one
claimAdWatchRewardOffByOne(deviceId) ==
  IF UniqueThrows(by_deviceId(deviceId)) \/ by_deviceId(deviceId) = {}
  THEN Threw("claimAdWatchReward", deviceId)
  ELSE LET i == Unique(by_deviceId(deviceId))
           device == devices[i]
           lastResetTimestamp == device.lastAdWatchResetTimestamp
           sessionsToday ==
             IF \/ ~TruthyNum(lastResetTimestamp)
                \/ now - lastResetTimestamp >= TWENTY_FOUR_HOURS
             THEN 0 ELSE device.adWatchSessionsToday
       IN
    IF sessionsToday > AD_WATCH_CAP
    THEN Returned("claimAdWatchReward", deviceId, devices,
                  FALSE, device.credits, device.isPro)
    ELSE LET newSessions == sessionsToday + 1
             newCredits == device.credits + AD_WATCH_REWARD
             resetTimestamp ==
               IF sessionsToday = 0 THEN now
               ELSE IF lastResetTimestamp = Undefined THEN now
               ELSE lastResetTimestamp
         IN
         Returned("claimAdWatchReward", deviceId,
                  Patch(devices, i, [credits |-> newCredits,
                                     adWatchSessionsToday |-> newSessions,
                                     lastAdWatchResetTimestamp |-> resetTimestamp]),
                  TRUE, newCredits, device.isPro)

\* claimAdWatchReward that moves the reset timestamp on every accepted claim
claimAdWatchRewardSliding(deviceId) ==
  IF UniqueThrows(by_deviceId(deviceId)) \/ by_deviceId(deviceId) = {}
  THEN Threw("claimAdWatchReward", deviceId)
  ELSE LET i == Unique(by_deviceId(deviceId))
           device == devices[i]
           lastResetTimestamp == device.lastAdWatchResetTimestamp
           sessionsToday ==
             IF \/ ~TruthyNum(lastResetTimestamp)
                \/ now - lastResetTimestamp >= TWENTY_FOUR_HOURS
             THEN 0 ELSE device.adWatchSessionsToday
       IN
    IF sessionsToday >= AD_WATCH_CAP
    THEN Returned("claimAdWatchReward", deviceId, devices,
                  FALSE, device.credits, device.isPro)
    ELSE LET newSessions == sessionsToday + 1
             newCredits == device.credits + AD_WATCH_REWARD
             resetTimestamp == now
         IN
         Returned("claimAdWatchReward", deviceId,
                  Patch(devices, i, [credits |-> newCredits,
                                     adWatchSessionsToday |-> newSessions,
                                     lastAdWatchResetTimestamp |-> resetTimestamp]),
                  TRUE, newCredits, device.isPro)

claimAdWatchReward(deviceId) ==
  IF UniqueThrows(by_deviceId(deviceId)) \/ by_deviceId(deviceId) = {}
  THEN Threw("claimAdWatchReward", deviceId)
  ELSE LET i == Unique(by_deviceId(deviceId))
           device == devices[i]
           lastResetTimestamp == device.lastAdWatchResetTimestamp
           sessionsToday ==
             IF \/ ~TruthyNum(lastResetTimestamp)
                \/ now - lastResetTimestamp >= TWENTY_FOUR_HOURS
             THEN 0 ELSE device.adWatchSessionsToday
       IN
    IF sessionsToday >= AD_WATCH_CAP
    THEN Returned("claimAdWatchReward", deviceId, devices,
                  FALSE, device.credits, device.isPro)
    ELSE LET newSessions == sessionsToday + 1
             newCredits == device.credits + AD_WATCH_REWARD
             resetTimestamp ==
               IF sessionsToday = 0 THEN now
               ELSE IF lastResetTimestamp = Undefined THEN now
               ELSE lastResetTimestamp
         IN
         Returned("claimAdWatchReward", deviceId,
                  Patch(devices, i, [credits |-> newCredits,
                                     adWatchSessionsToday |-> newSessions,
                                     lastAdWatchResetTimestamp |-> resetTimestamp]),
                  TRUE, newCredits, device.isPro)

\* claimBonusAdReward whose cap test is off by one
claimBonusAdRewardOffByOne(deviceId) ==
  IF UniqueThrows(by_deviceId(deviceId)) \/ by_deviceId(deviceId) = {}
  THEN Threw("claimBonusAdReward", deviceId)
  ELSE LET i == Unique(by_deviceId(deviceId))
           device == devices[i]
           lastResetTimestamp == device.lastBonusAdResetTimestamp
           bonusToday ==
             IF \/ ~TruthyNum(lastResetTimestamp)
                \/ now - lastResetTimestamp >= TWENTY_FOUR_HOURS
             THEN 0 ELSE device.bonusAdClaimsToday
       IN
    IF bonusToday > BONUS_AD_CAP
    THEN Returned("claimBonusAdReward", deviceId, devices,
                  FALSE, device.credits, device.isPro)
    ELSE LET newBonus == bonusToday + 1
             newCredits == device.credits + BONUS_AD_REWARD
             resetTimestamp ==
               IF bonusToday = 0 THEN now
               ELSE IF lastResetTimestamp = Undefined THEN now
               ELSE lastResetTimestamp
         IN
         Returned("claimBonusAdReward", deviceId,
                  Patch(devices, i, [credits |-> newCredits,
                                     bonusAdClaimsToday |-> newBonus,
                                     lastBonusAdResetTimestamp |-> resetTimestamp]),
                  TRUE, newCredits, device.isPro)

claimBonusAdReward(deviceId) ==
  IF UniqueThrows(by_deviceId(deviceId)) \/ by_deviceId(deviceId) = {}
  THEN Threw("claimBonusAdReward", deviceId)
  ELSE LET i == Unique(by_deviceId(deviceId))
           device == devices[i]
           lastResetTimestamp == device.lastBonusAdResetTimestamp
           bonusToday ==
             IF \/ ~TruthyNum(lastResetTimestamp)
                \/ now - lastResetTimestamp >= TWENTY_FOUR_HOURS
             THEN 0 ELSE device.bonusAdClaimsToday
       IN
    IF bonusToday >= BONUS_AD_CAP
    THEN Returned("claimBonusAdReward", deviceId, devices,
                  FALSE, device.credits, device.isPro)
    ELSE LET newBonus == bonusToday + 1
             newCredits == device.credits + BONUS_AD_REWARD
             resetTimestamp ==
               IF bonusToday = 0 THEN now
               ELSE IF lastResetTimestamp = Undefined THEN now
               ELSE lastResetTimestamp
         IN
         Returned("claimBonusAdReward", deviceId,
                  Patch(devices, i, [credits |-> newCredits,
                                     bonusAdClaimsToday |-> newBonus,
                                     lastBonusAdResetTimestamp |-> resetTimestamp]),
                  TRUE, newCredits, device.isPro)

claimReviewReward(deviceId) ==
  IF UniqueThrows(by_deviceId(deviceId)) \/ by_deviceId(deviceId) = {}
  THEN Threw("claimReviewReward", deviceId)
  ELSE LET i == Unique(by_deviceId(deviceId))
           device == devices[i] IN
    IF device.hasClaimedReviewReward
    THEN Returned("claimReviewReward", deviceId, devices,
                  FALSE, device.credits, device.isPro)
    ELSE LET newCredits == device.credits + ONE_TIME_REWARD IN
         Returned("claimReviewReward", deviceId,
                  Patch(devices, i, [credits |-> newCredits,
                                     hasClaimedReviewReward |-> TRUE]),
                  TRUE, newCredits, device.isPro)

\* updateProStatus that also stores the identifier as billing id of a device found by device id
updateProStatusLinksBillingId(revenueCatId, isPro) ==
  IF UniqueThrows(by_revenueCatId(revenueCatId))
  THEN Threw("updateProStatus", revenueCatId)
  ELSE LET i == Unique(by_revenueCatId(revenueCatId)) IN
    IF i = 0
    THEN IF UniqueThrows(by_deviceId(revenueCatId))
         THEN Threw("updateProStatus", revenueCatId)
         ELSE LET j == Unique(by_deviceId(revenueCatId)) IN
           IF j = 0
           THEN Returned("updateProStatus", revenueCatId, devices, FALSE, 0, isPro)
           ELSE Returned("updateProStatus", revenueCatId,
                         Patch(devices, j, [isPro |-> isPro, revenueCatId |-> revenueCatId]),
                         FALSE, devices[j].credits, isPro)
    ELSE Returned("updateProStatus", revenueCatId,
                  Patch(devices, i, [isPro |-> isPro]),
                  FALSE, devices[i].credits, isPro)

updateProStatus(revenueCatId, isPro) ==
  IF UniqueThrows(by_revenueCatId(revenueCatId))
  THEN Threw("updateProStatus", revenueCatId)
  ELSE LET i == Unique(by_revenueCatId(revenueCatId)) IN
    IF i = 0
    THEN IF UniqueThrows(by_deviceId(revenueCatId))
         THEN Threw("updateProStatus", revenueCatId)
         ELSE LET j == Unique(by_deviceId(revenueCatId)) IN
           IF j = 0
           THEN Returned("updateProStatus", revenueCatId, devices, FALSE, 0, isPro)
           ELSE Returned("updateProStatus", revenueCatId,
                         Patch(devices, j, [isPro |-> isPro]),
                         FALSE, devices[j].credits, isPro)
    ELSE Returned("updateProStatus", revenueCatId,
                  Patch(devices, i, [isPro |-> isPro]),
                  FALSE, devices[i].credits, isPro)

\* getDevice / getDeviceInternal: the document, or null
getDeviceInternal(deviceId) ==
  LET i == Unique(by_deviceId(deviceId)) IN
  IF i = 0 THEN Null ELSE devices[i]

-----------------------------------------------------------------------------
(* tools.ts: the internal mutations; toolUsage.ts: the usage query         *)

\* deductCredit without the credits > 0 test
deductCreditUnguarded(deviceId) ==
  LET i == Unique(by_deviceId(deviceId)) IN
  IF i # 0
  THEN Patch(devices, i, [credits |-> devices[i].credits - 1])
  ELSE devices

\* the devices table after deductCredit
deductCredit(deviceId) ==
  LET i == Unique(by_deviceId(deviceId)) IN
  IF i # 0 /\ devices[i].credits > 0
  THEN Patch(devices, i, [credits |-> devices[i].credits - 1])
  ELSE devices

\* logToolUsage writing no time of its own
logToolUsageUnstamped(deviceId, toolId) ==
  toolUsage (+) SetToBag({[deviceId |-> deviceId, toolId |-> toolId, createdAt |-> 0]})

\* logToolUsage keeping only the record it writes
logToolUsageKeepsLast(deviceId, toolId) ==
  SetToBag({[deviceId |-> deviceId, toolId |-> toolId, createdAt |-> now]})

\* the toolUsage table after logToolUsage
logToolUsage(deviceId, toolId) ==
  toolUsage (+) SetToBag({[deviceId |-> deviceId, toolId |-> toolId, createdAt |-> now]})

\* getRecentUsage / getRecentUsageInternal: { count }
getRecentUsage(deviceId, since) ==
  Copies(toolUsage, {u \in BagToSet(toolUsage) :
                       u.deviceId = deviceId /\ u.createdAt >= since})

-----------------------------------------------------------------------------
(* Text: a string is the sequence of its characters                        *)

Chars(n, c) == [i \in 1..n |-> c]
IsSpace(c) == c \in {" ", "\t", "\n"}

\* String.prototype.trim
RECURSIVE TrimStart(_)
TrimStart(s) == IF s # <<>> /\ IsSpace(Head(s)) THEN TrimStart(Tail(s)) ELSE s
RECURSIVE TrimEnd(_)
TrimEnd(s) ==
  IF s # <<>> /\ IsSpace(s[Len(s)]) THEN TrimEnd(SubSeq(s, 1, Len(s) - 1)) ELSE s
Trim(s) == TrimEnd(TrimStart(s))

\* s.split(/\s+/).length: one more than the number of maximal whitespace runs
\* ("".split(/\s+/) is [""], of length 1)
SplitLength(s) ==
  1 + Cardinality({i \in 1..Len(s) :
                     IsSpace(s[i]) /\ (i = 1 \/ ~IsSpace(s[i - 1]))})

\* fullText.match(/\{[\s\S]*\}/): first "{" to last "}", or no match (<<>>)
JsonMatch(s) ==
  LET opens == {i \in 1..Len(s) : s[i] = "{"}
      closes == {i \in 1..Len(s) : s[i] = "}"}
  IN IF opens = {} \/ closes = {} THEN <<>>
     ELSE LET a == CHOOSE i \in opens : \A j \in opens : i <= j
              b == CHOOSE i \in closes : \A j \in closes : i >= j
          IN IF a < b THEN SubSeq(s, a, b) ELSE <<>>

\* JSON.parse(m).result when it is a string: m is {"result":"<text>"} with
\* <text> free of quotes and backslashes.  <<>> otherwise (the parse fails, or
\* result is missing, empty or not a string).
ResultKey == <<"{", "\"", "r", "e", "s", "u", "l", "t", "\"", ":", "\"">>
ParsedResult(m) ==
  LET k == Len(ResultKey) IN
  IF /\ Len(m) >= k + 2
     /\ SubSeq(m, 1, k) = ResultKey
     /\ SubSeq(m, Len(m) - 1, Len(m)) = <<"\"", "}">>
     /\ \A i \in (k + 1)..(Len(m) - 2) : m[i] \notin {"\"", "\\"}
  THEN SubSeq(m, k + 1, Len(m) - 2)
  ELSE <<>>

\* JSON.parse(m).result when it is an object: m is {"result":{"text":"<text>"}}
\* with <text> free of quotes, backslashes and braces.  The value is given by
\* its JSON text {"text":"<text>"}; <<>> when m is not of this form.
ObjectKey ==
  <<"{", "\"", "r", "e", "s", "u", "l", "t", "\"", ":",
    "{", "\"", "t", "e", "x", "t", "\"", ":", "\"">>
ParsedObject(m) ==
  LET k == Len(ObjectKey) IN
  IF /\ Len(m) >= k + 3
     /\ SubSeq(m, 1, k) = ObjectKey
     /\ SubSeq(m, Len(m) - 2, Len(m)) = <<"\"", "}", "}">>
     /\ \A i \in (k + 1)..(Len(m) - 3) : m[i] \notin {"\"", "\\", "{", "}"}
  THEN SubSeq(m, 11, Len(m) - 1)
  ELSE <<>>

MAX_RESPONSE_LENGTH == 5000
Ellipsis == <<".", ".", ".">>

\* http.ts 326-345: unwrap a JSON envelope, then truncate.  The value that
\* JSON.stringify puts in the done event: the characters of a string, the JSON
\* text of an object.  An object is truthy and its length is undefined, so the
\* comparison with 5000 is false and it is delivered whole.
FinalResult(fullText) ==
  LET m == JsonMatch(fullText)
      parsed == ParsedResult(m)
      object == ParsedObject(m)
      finalResult == IF parsed # <<>> THEN parsed ELSE fullText
  IN IF object # <<>> THEN object
     ELSE IF Len(finalResult) > MAX_RESPONSE_LENGTH
     THEN SubSeq(finalResult, 1, MAX_RESPONSE_LENGTH) \o Ellipsis
     ELSE finalResult

\* String(error).includes("429")
Includes429(err) == err = "Error: 429 Too Many Requests"
ProviderErrors == {"Error: 429 Too Many Requests", "Error: connect ETIMEDOUT"}
ErrorCode(err) == IF Includes429(err) THEN "ai_quota_exceeded" ELSE "ai_failed"

-----------------------------------------------------------------------------
(* Tool execution requests                                                 *)

ReqIds == 1..MaxReqs

NoResponse == [status |-> 0, error |-> "pending", text |-> <<>>]
HttpError(status, code) == [status |-> status, error |-> code, text |-> <<>>]
EventStream == [status |-> 200, error |-> "none", text |-> <<>>]
ActionError(code) == [status |-> 0, error |-> code, text |-> <<>>]
ActionThrew == [status |-> 0, error |-> "exception", text |-> <<>>]
ActionResult(text) == [status |-> 0, error |-> "none", text |-> text]

IdleReq ==
  [ kind |-> "idle",        \* "http": POST /api/executeTool, "action": executeTool
    pc |-> "idle",
    deviceId |-> NoString,
    toolId |-> NoString,
    device |-> Null,        \* the device read at authorization
    fullText |-> <<>>,
    chunks |-> 0,           \* provider chunks received
    events |-> <<>>,        \* SSE events enqueued on the response stream
    response |-> NoResponse,
    provider |-> 0,         \* calls of openai.chat.completions.create
    queries |-> 0,          \* ctx.runQuery calls
    charged |-> 0,          \* credits this request's deductCredit took
    logged |-> 0,           \* usage records this request appended
    failed |-> "none",      \* what raised an error: "provider", "write",
                            \* "stream" (the response stream) or "none"
    cancelled |-> FALSE ]   \* the caller cancelled the response stream

Snapshot(device) == [isPro |-> device.isPro, credits |-> device.credits]

ChunkEvent(delta) == [type |-> "chunk", text |-> delta, code |-> "none"]
DoneEvent(text) == [type |-> "done", text |-> text, code |-> "none"]
ErrorEvent(code) == [type |-> "error", text |-> <<>>, code |-> code]

MAX_INPUT_LENGTH == 6000
MAX_PREVIOUS_RESULTS == 5
MAX_PREVIOUS_RESULT_LENGTH == 2000
BURST_LIMIT == 15
ACTION_BURST_LIMIT == 20
PRO_DAILY_LIMIT == 500
BURST_WINDOW == 60000

\* http.ts 133-208: the response that ends the request, or NoResponse
Validate(body) ==
  IF ~body.json THEN HttpError(400, "invalid_json")
  ELSE IF body.deviceId = "" \/ body.toolId = "" \/ body.userInput = <<>>
    THEN HttpError(400, "missing_fields")
  ELSE IF env.KILL_SWITCH THEN HttpError(503, "service_unavailable")
  ELSE IF Len(body.userInput) > MAX_INPUT_LENGTH
    THEN HttpError(400, "input_too_long")
  ELSE IF Len(body.previousResults) > MAX_PREVIOUS_RESULTS
    THEN HttpError(400, "too_many_previous_results")
  ELSE IF \E i \in DOMAIN body.previousResults :
            Len(body.previousResults[i]) > MAX_PREVIOUS_RESULT_LENGTH
    THEN HttpError(400, "previous_result_too_long")
  ELSE LET wordCount == SplitLength(Trim(body.userInput)) IN
    IF body.toolId = "find-synonyms"
    THEN IF wordCount # 1 THEN HttpError(400, "too_short") ELSE NoResponse
    ELSE IF wordCount < 2 THEN HttpError(400, "too_short") ELSE NoResponse

\* HttpReceive going on to the device lookup whatever the validation answered
HttpReceiveValidatesLate(r, body) ==
  /\ req[r].pc = "idle"
  /\ LET resp == Validate(body) IN
     req' = [req EXCEPT ![r] =
       [IdleReq EXCEPT !.kind = "http",
                       !.deviceId = IF body.json THEN body.deviceId ELSE NoString,
                       !.toolId = IF body.json THEN body.toolId ELSE NoString,
                       !.response = resp,
                       !.pc = "authorizing"]]
  /\ UNCHANGED <<devices, toolUsage, now, env, trace>>

\* POST /api/executeTool arrives: parse and validate (http.ts 133-208)
HttpReceive(r, body) ==
  /\ req[r].pc = "idle"
  /\ LET resp == Validate(body) IN
     req' = [req EXCEPT ![r] =
       [IdleReq EXCEPT !.kind = "http",
                       !.deviceId = IF body.json THEN body.deviceId ELSE NoString,
                       !.toolId = IF body.json THEN body.toolId ELSE NoString,
                       !.response = resp,
                       !.pc = IF resp = NoResponse THEN "authorizing" ELSE "done"]]
  /\ UNCHANGED <<devices, toolUsage, now, env, trace>>

\* http.ts 269-390: the API key check, then the response carrying the stream
\* whose start() calls the provider
OpenStream(q) ==
  IF ~env.OPENROUTER_API_KEY
  THEN [q EXCEPT !.response = HttpError(500, "ai_failed"), !.pc = "done"]
  ELSE [q EXCEPT !.response = EventStream, !.pc = "creating"]

\* HttpAuthorize opening the stream without the usage checks
HttpAuthorizeSkipsRateCheck(r) ==
  /\ req[r].kind = "http" /\ req[r].pc = "authorizing"
  /\ LET device == getDeviceInternal(req[r].deviceId)
         q == [req[r] EXCEPT !.queries = @ + 1]
     IN req' = [req EXCEPT ![r] =
          IF device = Null
          THEN [q EXCEPT !.response = HttpError(401, "device_not_found"), !.pc = "done"]
          ELSE IF ~device.isPro /\ device.credits <= 0
          THEN [q EXCEPT !.response = HttpError(402, "no_credits"), !.pc = "done"]
          ELSE OpenStream([q EXCEPT !.device = Snapshot(device)])]
  /\ UNCHANGED <<devices, toolUsage, now, env, trace>>

\* http.ts 210-228: runQuery(getDeviceInternal), device_not_found, no_credits
HttpAuthorize(r) ==
  /\ req[r].kind = "http" /\ req[r].pc = "authorizing"
  /\ LET device == getDeviceInternal(req[r].deviceId)
         q == [req[r] EXCEPT !.queries = @ + 1]
     IN req' = [req EXCEPT ![r] =
          IF device = Null
          THEN [q EXCEPT !.response = HttpError(401, "device_not_found"), !.pc = "done"]
          ELSE IF ~device.isPro /\ device.credits <= 0
          THEN [q EXCEPT !.response = HttpError(402, "no_credits"), !.pc = "done"]
          ELSE [q EXCEPT !.device = Snapshot(device), !.pc = "rateChecking"]]
  /\ UNCHANGED <<devices, toolUsage, now, env, trace>>

\* HttpBurstCheck that already rejects at the limit
HttpBurstCheckStrict(r) ==
  /\ req[r].kind = "http" /\ req[r].pc = "rateChecking"
  /\ LET count == getRecentUsage(req[r].deviceId, now - BURST_WINDOW)
         q == [req[r] EXCEPT !.queries = @ + 1]
     IN req' = [req EXCEPT ![r] =
          IF count >= BURST_LIMIT
          THEN [q EXCEPT !.response = HttpError(429, "rate_limited"), !.pc = "done"]
          ELSE IF q.device.isPro THEN [q EXCEPT !.pc = "dailyChecking"]
          ELSE OpenStream(q)]
  /\ UNCHANGED <<devices, toolUsage, now, env, trace>>

\* HttpBurstCheck that sends every device to the daily check
HttpBurstCheckDailyForAll(r) ==
  /\ req[r].kind = "http" /\ req[r].pc = "rateChecking"
  /\ LET count == getRecentUsage(req[r].deviceId, now - BURST_WINDOW)
         q == [req[r] EXCEPT !.queries = @ + 1]
     IN req' = [req EXCEPT ![r] =
          IF count > BURST_LIMIT
          THEN [q EXCEPT !.response = HttpError(429, "rate_limited"), !.pc = "done"]
          ELSE [q EXCEPT !.pc = "dailyChecking"]]
  /\ UNCHANGED <<devices, toolUsage, now, env, trace>>

\* HttpBurstCheck admitting one more request than the limit
HttpBurstCheckLoose(r) ==
  /\ req[r].kind = "http" /\ req[r].pc = "rateChecking"
  /\ LET count == getRecentUsage(req[r].deviceId, now - BURST_WINDOW)
         q == [req[r] EXCEPT !.queries = @ + 1]
     IN req' = [req EXCEPT ![r] =
          IF count > BURST_LIMIT + 1
          THEN [q EXCEPT !.response = HttpError(429, "rate_limited"), !.pc = "done"]
          ELSE IF q.device.isPro THEN [q EXCEPT !.pc = "dailyChecking"]
          ELSE OpenStream(q)]
  /\ UNCHANGED <<devices, toolUsage, now, env, trace>>

\* http.ts 230-245: runQuery(getRecentUsageInternal) over the last 60 s
HttpBurstCheck(r) ==
  /\ req[r].kind = "http" /\ req[r].pc = "rateChecking"
  /\ LET count == getRecentUsage(req[r].deviceId, now - BURST_WINDOW)
         q == [req[r] EXCEPT !.queries = @ + 1]
     IN req' = [req EXCEPT ![r] =
          IF count > BURST_LIMIT
          THEN [q EXCEPT !.response = HttpError(429, "rate_limited"), !.pc = "done"]
          ELSE IF q.device.isPro THEN [q EXCEPT !.pc = "dailyChecking"]
          ELSE OpenStream(q)]
  /\ UNCHANGED <<devices, toolUsage, now, env, trace>>

\* http.ts 247-267: the daily limit of a Pro device
HttpDailyCheck(r) ==
  /\ req[r].kind = "http" /\ req[r].pc = "dailyChecking"
  /\ LET count == getRecentUsage(req[r].deviceId, now - TWENTY_FOUR_HOURS)
         q == [req[r] EXCEPT !.queries = @ + 1]
     IN req' = [req EXCEPT ![r] =
          IF count > PRO_DAILY_LIMIT
          THEN [q EXCEPT !.response = HttpError(429, "daily_limit_exceeded"),
                         !.pc = "done"]
          ELSE OpenStream(q)]
  /\ UNCHANGED <<devices, toolUsage, now, env, trace>>

\* controller.enqueue and controller.close on a stream the caller cancelled:
\* the stream is no longer readable and both throw a TypeError
StreamError == "TypeError: Invalid state: Controller is already closed"

\* http.ts 366-379: the catch block: an error event, then close.  On a
\* cancelled stream its enqueue throws and start() rejects with nothing sent.
Caught(q, err) ==
  IF q.cancelled THEN [q EXCEPT !.pc = "done"]
  ELSE [q EXCEPT !.events = Append(@, ErrorEvent(ErrorCode(err))), !.pc = "done"]

\* HttpCreate taking the credit before the stream is read
HttpCreateCharging(r) ==
  /\ req[r].kind = "http" /\ req[r].pc = "creating"
  /\ devices' = deductCredit(req[r].deviceId)
  /\ req' = [req EXCEPT ![r].provider = @ + 1, ![r].pc = "streaming",
                        ![r].charged = @ + CreditsOf(devices, req[r].deviceId)
                                         - CreditsOf(devices', req[r].deviceId)]
  /\ UNCHANGED <<toolUsage, now, env, trace>>

\* http.ts 307-313: openai.chat.completions.create resolves
HttpCreate(r) ==
  /\ req[r].kind = "http" /\ req[r].pc = "creating"
  /\ req' = [req EXCEPT ![r].provider = @ + 1, ![r].pc = "streaming"]
  /\ UNCHANGED <<devices, toolUsage, now, env, trace>>

\* http.ts 307-313, 366-379: openai.chat.completions.create rejects
HttpCreateFails(r, err) ==
  /\ req[r].kind = "http" /\ req[r].pc = "creating"
  /\ req' = [req EXCEPT ![r] =
       Caught([req[r] EXCEPT !.provider = @ + 1, !.failed = "provider"], err)]
  /\ UNCHANGED <<devices, toolUsage, now, env, trace>>

\* HttpChunk putting each fragment in front of the text received so far
HttpChunkPrepends(r, delta) ==
  /\ req[r].kind = "http" /\ req[r].pc = "streaming"
  /\ req[r].chunks < MaxChunks
  /\ req' = [req EXCEPT ![r] =
       IF delta = <<>> THEN [req[r] EXCEPT !.chunks = @ + 1]
       ELSE IF req[r].cancelled
       THEN Caught([req[r] EXCEPT !.chunks = @ + 1,
                                  !.fullText = delta \o @,
                                  !.failed = "stream"], StreamError)
       ELSE [req[r] EXCEPT !.chunks = @ + 1,
                           !.fullText = delta \o @,
                           !.events = Append(@, ChunkEvent(delta))]]
  /\ UNCHANGED <<devices, toolUsage, now, env, trace>>

\* http.ts 315-323: one chunk of the provider stream; an empty or missing
\* delta is skipped, and the enqueue throws on a cancelled stream
HttpChunk(r, delta) ==
  /\ req[r].kind = "http" /\ req[r].pc = "streaming"
  /\ req[r].chunks < MaxChunks
  /\ req' = [req EXCEPT ![r] =
       IF delta = <<>> THEN [req[r] EXCEPT !.chunks = @ + 1]
       ELSE IF req[r].cancelled
       THEN Caught([req[r] EXCEPT !.chunks = @ + 1,
                                  !.fullText = @ \o delta,
                                  !.failed = "stream"], StreamError)
       ELSE [req[r] EXCEPT !.chunks = @ + 1,
                           !.fullText = @ \o delta,
                           !.events = Append(@, ChunkEvent(delta))]]
  /\ UNCHANGED <<devices, toolUsage, now, env, trace>>

\* HttpStreamFails calling the provider again after a first error
HttpStreamFailsRetries(r, err) ==
  /\ req[r].kind = "http" /\ req[r].pc = "streaming"
  /\ req' = [req EXCEPT ![r] =
       IF req[r].provider < 2 THEN [req[r] EXCEPT !.pc = "creating"]
       ELSE Caught([req[r] EXCEPT !.failed = "provider"], err)]
  /\ UNCHANGED <<devices, toolUsage, now, env, trace>>

\* http.ts 315, 366-379: the provider stream raises an error
HttpStreamFails(r, err) ==
  /\ req[r].kind = "http" /\ req[r].pc = "streaming"
  /\ req' = [req EXCEPT ![r] = Caught([req[r] EXCEPT !.failed = "provider"], err)]
  /\ UNCHANGED <<devices, toolUsage, now, env, trace>>

\* HttpStreamEnds going straight to the usage record for every device
HttpStreamEndsNoCharge(r) ==
  /\ req[r].kind = "http" /\ req[r].pc = "streaming"
  /\ req' = [req EXCEPT ![r] =
       IF req[r].cancelled
       THEN Caught([req[r] EXCEPT !.failed = "stream"], StreamError)
       ELSE [req[r] EXCEPT
               !.events = Append(@, DoneEvent(FinalResult(req[r].fullText))),
               !.pc = "logging"]]
  /\ UNCHANGED <<devices, toolUsage, now, env, trace>>

\* http.ts 325-359: the provider stream ends: post-process, send the done
\* event, then start the commit; the enqueue throws on a cancelled stream
HttpStreamEnds(r) ==
  /\ req[r].kind = "http" /\ req[r].pc = "streaming"
  /\ req' = [req EXCEPT ![r] =
       IF req[r].cancelled
       THEN Caught([req[r] EXCEPT !.failed = "stream"], StreamError)
       ELSE [req[r] EXCEPT
               !.events = Append(@, DoneEvent(FinalResult(req[r].fullText))),
               !.pc = IF ~req[r].device.isPro THEN "deducting" ELSE "logging"]]
  /\ UNCHANGED <<devices, toolUsage, now, env, trace>>

\* HttpDeduct writing back the credits read at authorization, less one
HttpDeductFromSnapshot(r) ==
  /\ req[r].kind = "http" /\ req[r].pc = "deducting"
  /\ devices' = LET i == Unique(by_deviceId(req[r].deviceId)) IN
                IF i # 0 /\ req[r].device.credits > 0
                THEN Patch(devices, i, [credits |-> req[r].device.credits - 1])
                ELSE devices
  /\ req' = [req EXCEPT ![r].pc = "logging",
                        ![r].charged = @ + CreditsOf(devices, req[r].deviceId)
                                         - CreditsOf(devices', req[r].deviceId)]
  /\ UNCHANGED <<toolUsage, now, env, trace>>

\* http.ts 354-359: runMutation(deductCredit) commits
HttpDeduct(r) ==
  /\ req[r].kind = "http" /\ req[r].pc = "deducting"
  /\ devices' = deductCredit(req[r].deviceId)
  /\ req' = [req EXCEPT ![r].pc = "logging",
                        ![r].charged = @ + CreditsOf(devices, req[r].deviceId)
                                         - CreditsOf(devices', req[r].deviceId)]
  /\ UNCHANGED <<toolUsage, now, env, trace>>

\* http.ts 360-365: runMutation(logToolUsage) commits, then controller.close(),
\* which throws on a cancelled stream, after the write
HttpLog(r) ==
  /\ req[r].kind = "http" /\ req[r].pc = "logging"
  /\ toolUsage' = logToolUsage(req[r].deviceId, req[r].toolId)
  /\ req' = [req EXCEPT ![r] =
       LET q == [req[r] EXCEPT !.logged = @ + 1] IN
       IF q.cancelled THEN Caught([q EXCEPT !.failed = "stream"], StreamError)
       ELSE [q EXCEPT !.pc = "done"]]
  /\ UNCHANGED <<devices, now, env, trace>>

\* http.ts 304-381: the caller cancels the response body (disconnects) while
\* start() is running.  The stream is built with start() only: no cancel
\* callback stops the provider loop or the commit.
HttpCancel(r) ==
  /\ req[r].kind = "http" /\ req[r].response = EventStream
  /\ req[r].pc # "done" /\ ~req[r].cancelled
  /\ req' = [req EXCEPT ![r].cancelled = TRUE]
  /\ UNCHANGED <<devices, toolUsage, now, env, trace>>

\* http.ts 354-363, 366-379: a commit mutation rejects (the write is rolled
\* back) and the catch block runs
HttpCommitFails(r, err) ==
  /\ req[r].kind = "http" /\ req[r].pc \in {"deducting", "logging"}
  /\ req' = [req EXCEPT ![r] = Caught([req[r] EXCEPT !.failed = "write"], err)]
  /\ UNCHANGED <<devices, toolUsage, now, env, trace>>

-----------------------------------------------------------------------------
(* tools.ts: the executeTool action (non-streaming)                        *)

\* tools.ts 108-112: the 2-word minimum
ActionReceive(r, args) ==
  /\ req[r].pc = "idle"
  /\ LET wordCount == SplitLength(Trim(args.userInput))
         q == [IdleReq EXCEPT !.kind = "action",
                                     !.deviceId = args.deviceId,
                              !.toolId = args.toolId]
     IN req' = [req EXCEPT ![r] =
          IF wordCount < 2
          THEN [q EXCEPT !.response = ActionError("too_short"), !.pc = "done"]
          ELSE [q EXCEPT !.pc = "authorizing"]]
  /\ UNCHANGED <<devices, toolUsage, now, env, trace>>

\* tools.ts 114-126: runQuery(getDevice); an unregistered device throws
ActionAuthorize(r) ==
  /\ req[r].kind = "action" /\ req[r].pc = "authorizing"
  /\ LET device == getDeviceInternal(req[r].deviceId)
         q == [req[r] EXCEPT !.queries = @ + 1]
     IN req' = [req EXCEPT ![r] =
          IF device = Null
          THEN [q EXCEPT !.response = ActionThrew, !.pc = "done"]
          ELSE IF ~device.isPro /\ device.credits <= 0
          THEN [q EXCEPT !.response = ActionError("no_credits"), !.pc = "done"]
          ELSE [q EXCEPT !.device = Snapshot(device), !.pc = "rateChecking"]]
  /\ UNCHANGED <<devices, toolUsage, now, env, trace>>

\* tools.ts 128-142: runQuery(getRecentUsage), then the API key check
ActionBurstCheck(r) ==
  /\ req[r].kind = "action" /\ req[r].pc = "rateChecking"
  /\ LET count == getRecentUsage(req[r].deviceId, now - BURST_WINDOW)
         q == [req[r] EXCEPT !.queries = @ + 1]
     IN req' = [req EXCEPT ![r] =
          IF count > ACTION_BURST_LIMIT
          THEN [q EXCEPT !.response = ActionError("rate_limited"), !.pc = "done"]
          ELSE IF ~env.OPENROUTER_API_KEY
          THEN [q EXCEPT !.response = ActionThrew, !.pc = "done"]
          ELSE [q EXCEPT !.pc = "creating"]]
  /\ UNCHANGED <<devices, toolUsage, now, env, trace>>

\* tools.ts 162-176: the completion resolves with responseText
ActionCreate(r, text) ==
  /\ req[r].kind = "action" /\ req[r].pc = "creating"
  /\ req' = [req EXCEPT ![r].provider = @ + 1,
                        ![r].fullText = text,
                        ![r].pc = IF ~req[r].device.isPro THEN "deducting" ELSE "logging"]
  /\ UNCHANGED <<devices, toolUsage, now, env, trace>>

\* tools.ts 164, 191-200: the completion rejects
ActionCreateFails(r, err) ==
  /\ req[r].kind = "action" /\ req[r].pc = "creating"
  /\ req' = [req EXCEPT ![r].provider = @ + 1,
                        ![r].failed = "provider",
                        ![r].response = ActionError(ErrorCode(err)),
                        ![r].pc = "done"]
  /\ UNCHANGED <<devices, toolUsage, now, env, trace>>

\* tools.ts 171-176: runMutation(deductCredit) commits
ActionDeduct(r) ==
  /\ req[r].kind = "action" /\ req[r].pc = "deducting"
  /\ devices' = deductCredit(req[r].deviceId)
  /\ req' = [req EXCEPT ![r].pc = "logging",
                        ![r].charged = @ + CreditsOf(devices, req[r].deviceId)
                                         - CreditsOf(devices', req[r].deviceId)]
  /\ UNCHANGED <<toolUsage, now, env, trace>>

\* tools.ts 178-190: runMutation(logToolUsage) commits, the result is returned
ActionLog(r) ==
  /\ req[r].kind = "action" /\ req[r].pc = "logging"
  /\ toolUsage' = logToolUsage(req[r].deviceId, req[r].toolId)
  /\ req' = [req EXCEPT ![r].pc = "done", ![r].logged = @ + 1,
                        ![r].response = ActionResult(req[r].fullText)]
  /\ UNCHANGED <<devices, now, env, trace>>

\* tools.ts 171-182, 191-200: a commit mutation rejects inside the try block
ActionCommitFails(r, err) ==
  /\ req[r].kind = "action" /\ req[r].pc \in {"deducting", "logging"}
  /\ req' = [req EXCEPT ![r].failed = "write",
                        ![r].response = ActionError(ErrorCode(err)),
                        ![r].pc = "done"]
  /\ UNCHANGED <<devices, toolUsage, now, env, trace>>

-----------------------------------------------------------------------------
(* http.ts: the RevenueCat webhook and the credit check                    *)

ProEvents == {"INITIAL_PURCHASE", "RENEWAL", "PRODUCT_CHANGE", "UNCANCELLATION", "TRANSFER"}
KeepEvents == {"CANCELLATION", "BILLING_ISSUE"}

HttpReply(op, id, status, error) ==
  [ db |-> devices,
    ret |-> [op |-> op, deviceId |-> id, at |-> now, outcome |-> "ok",
             claimed |-> FALSE, credits |-> 0, isPro |-> FALSE,
             status |-> status, error |-> error, arg |-> "none"] ]

\* webhook that revokes Pro on CANCELLATION and BILLING_ISSUE
webhookRevokesOnCancel(request) ==
  IF ~env.REVENUECAT_WEBHOOK_SECRET
    THEN HttpReply("webhook", request.app_user_id, 500, "Server configuration error")
  ELSE IF request.auth # "ok"
    THEN HttpReply("webhook", request.app_user_id, 401, "Unauthorized")
  ELSE IF ~request.json
    THEN HttpReply("webhook", request.app_user_id, 400, "Invalid JSON body")
  ELSE IF ~request.object
    THEN HttpReply("webhook", request.app_user_id, 500, "exception")
  ELSE IF ~request.event
    THEN HttpReply("webhook", request.app_user_id, 400, "Missing event in body")
  ELSE IF request.app_user_id = ""
    THEN HttpReply("webhook", request.app_user_id, 400, "Missing app_user_id")
  ELSE IF request.type \notin ProEvents \cup KeepEvents \cup {"EXPIRATION"}
    THEN HttpReply("webhook", request.app_user_id, 200, "OK")
  ELSE LET m == updateProStatus(request.app_user_id, request.type \in ProEvents) IN
    IF m.ret.outcome = "threw"
    THEN HttpReply("webhook", request.app_user_id, 500, "exception")
    ELSE [db |-> m.db,
          ret |-> [m.ret EXCEPT !.op = "webhook", !.status = 200, !.error = "OK"]]

\* webhook that does not test the Authorization header
webhookUnauthenticated(request) ==
  IF ~env.REVENUECAT_WEBHOOK_SECRET
    THEN HttpReply("webhook", request.app_user_id, 500, "Server configuration error")
  ELSE IF ~request.json
    THEN HttpReply("webhook", request.app_user_id, 400, "Invalid JSON body")
  ELSE IF ~request.object
    THEN HttpReply("webhook", request.app_user_id, 500, "exception")
  ELSE IF ~request.event
    THEN HttpReply("webhook", request.app_user_id, 400, "Missing event in body")
  ELSE IF request.app_user_id = ""
    THEN HttpReply("webhook", request.app_user_id, 400, "Missing app_user_id")
  ELSE IF request.type \notin ProEvents \cup KeepEvents \cup {"EXPIRATION"}
    THEN HttpReply("webhook", request.app_user_id, 200, "OK")
  ELSE IF request.type \in KeepEvents
    THEN HttpReply("webhook", request.app_user_id, 200, "OK")
  ELSE LET m == updateProStatus(request.app_user_id, request.type \in ProEvents) IN
    IF m.ret.outcome = "threw"
    THEN HttpReply("webhook", request.app_user_id, 500, "exception")
    ELSE [db |-> m.db,
          ret |-> [m.ret EXCEPT !.op = "webhook", !.status = 200, !.error = "OK"]]

\* http.ts 21-104.  request: auth ("missing", "wrong" or "ok"), json (the
\* body parses), object (it parses to a value with properties: reading
\* body.event of null raises), event (the body has one), type, app_user_id
\* ("" when missing)
webhook(request) ==
  IF ~env.REVENUECAT_WEBHOOK_SECRET
    THEN HttpReply("webhook", request.app_user_id, 500, "Server configuration error")
  ELSE IF request.auth # "ok"
    THEN HttpReply("webhook", request.app_user_id, 401, "Unauthorized")
  ELSE IF ~request.json
    THEN HttpReply("webhook", request.app_user_id, 400, "Invalid JSON body")
  ELSE IF ~request.object
    THEN HttpReply("webhook", request.app_user_id, 500, "exception")
  ELSE IF ~request.event
    THEN HttpReply("webhook", request.app_user_id, 400, "Missing event in body")
  ELSE IF request.app_user_id = ""
    THEN HttpReply("webhook", request.app_user_id, 400, "Missing app_user_id")
  ELSE IF request.type \notin ProEvents \cup KeepEvents \cup {"EXPIRATION"}
    THEN HttpReply("webhook", request.app_user_id, 200, "OK")
  ELSE IF request.type \in KeepEvents
    THEN HttpReply("webhook", request.app_user_id, 200, "OK")
  ELSE LET m == updateProStatus(request.app_user_id, request.type \in ProEvents) IN
    IF m.ret.outcome = "threw"
    THEN HttpReply("webhook", request.app_user_id, 500, "exception")
    ELSE [db |-> m.db,
          ret |-> [m.ret EXCEPT !.op = "webhook", !.status = 200, !.error = "OK"]]

\* checkCredits that asks for credits of a Pro device too
checkCreditsIgnoresPro(body) ==
  IF ~body.json THEN HttpReply("checkCredits", NoString, 400, "invalid_json")
  ELSE IF env.KILL_SWITCH
    THEN HttpReply("checkCredits", body.deviceId, 503, "service_unavailable")
  ELSE IF body.deviceId = ""
    THEN HttpReply("checkCredits", body.deviceId, 400, "missing_deviceId")
  ELSE LET device == getDeviceInternal(body.deviceId) IN
    IF device = Null
      THEN HttpReply("checkCredits", body.deviceId, 401, "device_not_found")
    ELSE IF device.credits <= 0
      THEN HttpReply("checkCredits", body.deviceId, 402, "no_credits")
    ELSE HttpReply("checkCredits", body.deviceId, 200, "none")

\* http.ts 419-468.  body: json, deviceId ("" when missing)
checkCredits(body) ==
  IF ~body.json THEN HttpReply("checkCredits", NoString, 400, "invalid_json")
  ELSE IF env.KILL_SWITCH
    THEN HttpReply("checkCredits", body.deviceId, 503, "service_unavailable")
  ELSE IF body.deviceId = ""
    THEN HttpReply("checkCredits", body.deviceId, 400, "missing_deviceId")
  ELSE LET device == getDeviceInternal(body.deviceId) IN
    IF device = Null
      THEN HttpReply("checkCredits", body.deviceId, 401, "device_not_found")
    ELSE IF ~device.isPro /\ device.credits <= 0
      THEN HttpReply("checkCredits", body.deviceId, 402, "no_credits")
    ELSE HttpReply("checkCredits", body.deviceId, 200, "none")

-----------------------------------------------------------------------------
(* The calls as steps: each mutation is one transaction                    *)

\* The call as the caller and an observer of the store see it: what it
\* returned, and the device's stored credits before and after it.
Observed(m) ==
  [f \in DOMAIN m.ret \cup {"before", "after"} |->
     IF f = "before" THEN CreditsOf(devices, m.ret.deviceId)
     ELSE IF f = "after" THEN CreditsOf(m.db, m.ret.deviceId)
     ELSE m.ret[f]]

Call(m) ==
  /\ devices' = m.db
  /\ trace' = Append(trace, Observed(m))
  /\ UNCHANGED <<toolUsage, now, env, req>>

\* the call with the argument it was made with (billing id, event type)
WithArg(m, a) == [m EXCEPT !.ret.arg = a]

RegisterDevice(deviceId, revenueCatId) ==
  Call(WithArg(registerDevice(deviceId, revenueCatId), revenueCatId))
ClaimDailyCredits(deviceId, todayDate) == Call(claimDailyCredits(deviceId, todayDate))
ClaimKeyboardSetupReward(deviceId) == Call(claimKeyboardSetupReward(deviceId))
ClaimAdWatchReward(deviceId) == Call(claimAdWatchReward(deviceId))
ClaimBonusAdReward(deviceId) == Call(claimBonusAdReward(deviceId))
ClaimReviewReward(deviceId) == Call(claimReviewReward(deviceId))
Webhook(request) == Call(WithArg(webhook(request), request.type))
CheckCredits(body) == Call(checkCredits(body))

\* Time passes: Date.now() moves to a later instant among `points`.
Tick(points) ==
  /\ \E t \in points : t > now /\ now' = t
  /\ UNCHANGED <<devices, toolUsage, env, req, trace>>

-----------------------------------------------------------------------------
(* Initial states                                                          *)

\* A store the program reaches: d1 registered at time 1, the daily credits
\* claimed at time 2, and DAILY_REWARD - c executions committed since, one
\* per millisecond, long before Epoch.
UsedDevice(c, pro) ==
  [ deviceId |-> "d1",
    revenueCatId |-> NoString,
    credits |-> c,
    isPro |-> pro,
    lastCreditClaimDate |-> "2026-02-13",
    lastCreditClaimTimestamp |-> 2,
    hasClaimedKeyboardSetupReward |-> FALSE,
    adWatchSessionsToday |-> 0,
    lastAdWatchResetTimestamp |-> Undefined,
    bonusAdClaimsToday |-> 0,
    lastBonusAdResetTimestamp |-> Undefined,
    hasClaimedReviewReward |-> FALSE,
    createdAt |-> 1 ]
UsedLedger(c) ==
  SetToBag({[deviceId |-> "d1", toolId |-> "rephrase", createdAt |-> 2 + k] :
              k \in 1..(DAILY_REWARD - c)})

InitRequests ==
  /\ req = [r \in ReqIds |-> IdleReq]
  /\ trace = <<>>
  /\ now = Epoch

EmptyStore == devices = <<>> /\ toolUsage = EmptyBag
UsedStore ==
  \E c \in 0..InitCredits, pro \in BOOLEAN :
    devices = <<UsedDevice(c, pro)>> /\ toolUsage = UsedLedger(c)

Configured == [KILL_SWITCH |-> FALSE, OPENROUTER_API_KEY |-> TRUE,
               REVENUECAT_WEBHOOK_SECRET |-> TRUE]

Init ==
  /\ EmptyStore \/ UsedStore
  /\ env \in {Configured, [Configured EXCEPT !.KILL_SWITCH = TRUE]}
  /\ InitRequests

-----------------------------------------------------------------------------
(* Inputs                                                                  *)

Hello == <<"h", "i">>
HelloWorld == <<"h", "i", " ", "y", "o">>
Ok == <<"O", "k">>

HttpBody(json, deviceId, toolId, userInput) ==
  [json |-> json, deviceId |-> deviceId, toolId |-> toolId,
   userInput |-> userInput, previousResults |-> <<>>]
ActionArg(deviceId, toolId, userInput) ==
  [deviceId |-> deviceId, toolId |-> toolId, userInput |-> userInput]
WebhookRequest(auth, json, event, type, id) ==
  [auth |-> auth, json |-> json, object |-> TRUE, event |-> event, type |-> type,
   app_user_id |-> id]
\* a body that is the JSON value null
NullBody == [WebhookRequest("ok", TRUE, FALSE, "none", "") EXCEPT !.object = FALSE]

WriteErrors == {"Error: write failed"}
Times == {Epoch + BURST_WINDOW, Epoch + TWENTY_FOUR_HOURS}

\* requests take the slots in order
NextSlot(r) == \A k \in ReqIds : k < r => req[k].pc # "idle"

\* the steps of the streaming request in slot r
StreamingOf(r, bodies, deltas, errors) ==
  \/ NextSlot(r) /\ \E body \in bodies : HttpReceive(r, body)
  \/ HttpAuthorize(r)
  \/ HttpBurstCheck(r)
  \/ HttpDailyCheck(r)
  \/ HttpCreate(r)
  \/ \E err \in errors : HttpCreateFails(r, err)
  \/ \E delta \in deltas : HttpChunk(r, delta)
  \/ \E err \in errors : HttpStreamFails(r, err)
  \/ HttpStreamEnds(r)
  \/ HttpDeduct(r)
  \/ HttpLog(r)
  \/ \E err \in WriteErrors : HttpCommitFails(r, err)

Streaming(bodies, deltas, errors) ==
  \E r \in ReqIds : StreamingOf(r, bodies, deltas, errors)

NonStreaming(args, texts, errors) ==
  \E r \in ReqIds :
    \/ NextSlot(r) /\ \E a \in args : ActionReceive(r, a)
    \/ ActionAuthorize(r)
    \/ ActionBurstCheck(r)
    \/ \E text \in texts : ActionCreate(r, text)
    \/ \E err \in errors : ActionCreateFails(r, err)
    \/ ActionDeduct(r)
    \/ ActionLog(r)
    \/ \E err \in WriteErrors : ActionCommitFails(r, err)

-----------------------------------------------------------------------------
(* Spec: every operation, interleaved                                      *)

Calls ==
  /\ Len(trace) < MaxCalls
  /\ \/ RegisterDevice("d1", NoString)
     \/ ClaimDailyCredits("d1", "2026-02-14")
     \/ ClaimKeyboardSetupReward("d1")
     \/ ClaimAdWatchReward("d1")
     \/ ClaimBonusAdReward("d1")
     \/ ClaimReviewReward("d1")
     \/ \E type \in {"INITIAL_PURCHASE", "EXPIRATION"} :
          Webhook(WebhookRequest("ok", TRUE, TRUE, type, "d1"))
     \/ CheckCredits([json |-> TRUE, deviceId |-> "d1"])

Next ==
  \/ Streaming({HttpBody(TRUE, "d1", "rephrase", HelloWorld)}, {Ok},
               {"Error: connect ETIMEDOUT"})
  \/ NonStreaming({ActionArg("d1", "rephrase", HelloWorld)}, {Ok},
                  {"Error: connect ETIMEDOUT"})
  \/ Calls
  \/ Tick(Times)

Spec == Init /\ [][Next]_vars

-----------------------------------------------------------------------------
(* SpecExec: the two execution paths with every outcome of validation, of  *)
(* the provider and of the commit writes, while webhooks change isPro      *)

Bodies ==
  { HttpBody(FALSE, "", "", <<>>),
    HttpBody(TRUE, "d1", "", HelloWorld),
    HttpBody(TRUE, "d1", "rephrase", Hello),
    HttpBody(TRUE, "d1", "rephrase", HelloWorld) }
ActionArgs ==
  { ActionArg("d1", "rephrase", Hello), ActionArg("d1", "rephrase", HelloWorld) }
Deltas == { <<>>, Ok }

Subscription ==
  /\ Len(trace) < MaxCalls
  /\ \E type \in {"INITIAL_PURCHASE", "EXPIRATION"} :
       Webhook(WebhookRequest("ok", TRUE, TRUE, type, "d1"))

NextExec ==
  \/ Streaming(Bodies, Deltas, ProviderErrors)
  \/ NonStreaming(ActionArgs, Deltas, ProviderErrors)
  \/ Subscription

SpecExec == Init /\ [][NextExec]_vars

-----------------------------------------------------------------------------
(* SpecClaims: registration, the daily and one-time claims and webhooks    *)
(* for one device, from the empty store, with the calls observed in trace  *)

InitClaims ==
  /\ InitRequests
  /\ EmptyStore
  /\ env = Configured

ClaimTimes ==
  {Epoch + TWENTY_FOUR_HOURS - 1, Epoch + TWENTY_FOUR_HOURS,
   Epoch + TWENTY_FOUR_HOURS + 1}

ClaimCalls ==
  /\ Len(trace) < MaxClaimCalls
  /\ \/ \E rc \in {NoString, "rc1"} : RegisterDevice("d1", rc)
     \/ \E date \in {"2026-02-13", "2026-02-14"} : ClaimDailyCredits("d1", date)
     \/ ClaimKeyboardSetupReward("d1")
     \/ ClaimReviewReward("d1")
     \/ \E type \in {"INITIAL_PURCHASE", "EXPIRATION"} :
          Webhook(WebhookRequest("ok", TRUE, TRUE, type, "d1"))

NextClaims == ClaimCalls \/ Tick(ClaimTimes)

SpecClaims == InitClaims /\ [][NextClaims]_vars

-----------------------------------------------------------------------------
(* SpecRolling: the two rolling-window rewards of a registered device      *)

RegisteredDevice == [NewDevice("d1", NoString) EXCEPT !.createdAt = 1]

InitRolling ==
  /\ InitRequests
  /\ devices = <<RegisteredDevice>>
  /\ toolUsage = EmptyBag
  /\ env = Configured

RollingCalls ==
  /\ Len(trace) < MaxRollingCalls
  /\ \/ ClaimAdWatchReward("d1")
     \/ ClaimBonusAdReward("d1")

NextRolling == RollingCalls \/ Tick(ClaimTimes)

SpecRolling == InitRolling /\ [][NextRolling]_vars

-----------------------------------------------------------------------------
(* SpecSubs: registrations of two devices with billing ids and webhook      *)
(* requests of every shape, from the empty store                            *)

WebhookTypes == ProEvents \cup KeepEvents \cup {"EXPIRATION", "TEST"}
Authentic ==
  {WebhookRequest("ok", TRUE, TRUE, type, id) :
     type \in WebhookTypes, id \in {"d1", "rc1"}}
Malformed ==
  { WebhookRequest("missing", TRUE, TRUE, "INITIAL_PURCHASE", "d1"),
    WebhookRequest("wrong", TRUE, TRUE, "INITIAL_PURCHASE", "d1"),
    WebhookRequest("ok", FALSE, FALSE, "INITIAL_PURCHASE", ""),
    WebhookRequest("ok", TRUE, FALSE, "INITIAL_PURCHASE", ""),
    WebhookRequest("ok", TRUE, TRUE, "INITIAL_PURCHASE", ""),
    NullBody }
SubsRequests == Authentic \cup Malformed
Registrations ==
  {<<"d1", NoString>>, <<"d1", "rc1">>, <<"d2", "rc1">>, <<"d2", "d1">>}

InitSubs ==
  /\ InitRequests
  /\ EmptyStore
  /\ env \in {Configured, [Configured EXCEPT !.REVENUECAT_WEBHOOK_SECRET = FALSE]}

SubsCalls ==
  /\ Len(trace) < MaxSubsCalls
  /\ \/ \E reg \in Registrations : RegisterDevice(reg[1], reg[2])
     \/ ClaimKeyboardSetupReward("d1")
     \/ \E request \in SubsRequests : Webhook(request)

NextSubs == SubsCalls

SpecSubs == InitSubs /\ [][NextSubs]_vars

-----------------------------------------------------------------------------
(* SpecBurst: streaming requests of a device with 15 or 16 executions in    *)
(* the 60 seconds before Epoch, the oldest exactly 60 seconds before it     *)

\* d1 after the setup reward, a daily claim and n executions
BusyDevice(n, pro) ==
  [UsedDevice(ONE_TIME_REWARD + DAILY_REWARD - n, pro)
     EXCEPT !.hasClaimedKeyboardSetupReward = TRUE]
BusyLedger(n) ==
  SetToBag({[deviceId |-> "d1", toolId |-> "rephrase",
             createdAt |-> Epoch - BURST_WINDOW + k - 1] : k \in 1..n})

InitBurst ==
  /\ InitRequests
  /\ env = Configured
  /\ \E n \in {BURST_LIMIT, BURST_LIMIT + 1}, pro \in BOOLEAN :
       devices = <<BusyDevice(n, pro)>> /\ toolUsage = BusyLedger(n)

BurstTimes == {Epoch + 1, Epoch + BURST_WINDOW}

NextBurst ==
  \/ Streaming({HttpBody(TRUE, "d1", "rephrase", HelloWorld)}, {Ok},
               {"Error: connect ETIMEDOUT"})
  \/ Tick(BurstTimes)

SpecBurst == InitBurst /\ [][NextBurst]_vars

-----------------------------------------------------------------------------
(* SpecDaily: streaming requests of a device with 500 or 501 executions in  *)
(* the 24 hours before the initial instant, the oldest exactly 24 hours     *)
(* before it and none in the last minute                                    *)

HeavyLedger(n) ==
  SetToBag({[deviceId |-> "d1", toolId |-> "rephrase",
             createdAt |-> Epoch + (k - 1) * 100 * 1000] : k \in 1..n})

InitDaily ==
  /\ req = [r \in ReqIds |-> IdleReq]
  /\ trace = <<>>
  /\ now = Epoch + TWENTY_FOUR_HOURS
  /\ env = Configured
  /\ \E n \in {PRO_DAILY_LIMIT, PRO_DAILY_LIMIT + 1}, pro \in BOOLEAN :
       devices = <<UsedDevice(1, pro)>> /\ toolUsage = HeavyLedger(n)

DailyTimes == {Epoch + TWENTY_FOUR_HOURS + 1}

NextDaily ==
  \/ Streaming({HttpBody(TRUE, "d1", "rephrase", HelloWorld)}, {Ok},
               {"Error: connect ETIMEDOUT"})
  \/ Tick(DailyTimes)

SpecDaily == InitDaily /\ [][NextDaily]_vars

-----------------------------------------------------------------------------
(* SpecStream: what the provider's fragments become on the response stream  *)
(* of one request: plain text, string and object envelopes, texts at and    *)
(* over the cap                                                             *)

Hel == <<"H", "e", "l">>
lo == <<"l", "o">>
HalfCap == 2500
Half == Chars(HalfCap, "x")
HalfAndOne == Chars(HalfCap + 1, "x")
EnvelopeOpen == ResultKey \o HalfAndOne
EnvelopeClose == Half \o <<"\"", "}">>
ObjectOpen == ObjectKey \o HalfAndOne
ObjectClose == Half \o <<"\"", "}", "}">>
Fragments ==
  { <<>>, Hel, lo, Half, HalfAndOne,
    EnvelopeOpen, EnvelopeClose, ObjectOpen, ObjectClose }

InitStream ==
  /\ InitRequests
  /\ env = Configured
  /\ \E pro \in BOOLEAN :
       devices = <<UsedDevice(InitCredits, pro)>> /\ toolUsage = UsedLedger(InitCredits)

NextStream ==
  StreamingOf(1, {HttpBody(TRUE, "d1", "rephrase", HelloWorld)}, Fragments,
              {"Error: connect ETIMEDOUT"})

SpecStream == InitStream /\ [][NextStream]_vars

-----------------------------------------------------------------------------
(* SpecCancel: streaming requests whose caller may disconnect at any point  *)
(* after the response was returned                                          *)

NextCancel ==
  \/ Streaming({HttpBody(TRUE, "d1", "rephrase", HelloWorld)}, Deltas,
               {"Error: connect ETIMEDOUT"})
  \/ \E r \in ReqIds : HttpCancel(r)

SpecCancel == InitStream /\ [][NextCancel]_vars

-----------------------------------------------------------------------------
(* SpecValidate: streaming requests with bodies on both sides of every      *)
(* validation limit, for a generic tool and for find-synonyms               *)

Spaces == <<" ", " ">>
ThreeWords == <<"a", " ", "b", "\t", "c">>
Padded == <<" ", "h", "i", " ">>
\* two words, n characters in all
LongInput(n) == <<"a", " ">> \o Chars(n - 2, "x")
WithPrevious(body, previousResults) ==
  [body EXCEPT !.previousResults = previousResults]

WordBodies ==
  { HttpBody(TRUE, "d1", toolId, userInput) :
      toolId \in {"rephrase", "find-synonyms"},
      userInput \in {Spaces, Hello, Padded, HelloWorld, ThreeWords} }
LimitBodies ==
  { HttpBody(FALSE, "", "", <<>>),
    HttpBody(TRUE, "", "rephrase", HelloWorld),
    HttpBody(TRUE, "d1", "", HelloWorld),
    HttpBody(TRUE, "d1", "rephrase", <<>>),
    HttpBody(TRUE, "d1", "rephrase", LongInput(MAX_INPUT_LENGTH)),
    HttpBody(TRUE, "d1", "rephrase", LongInput(MAX_INPUT_LENGTH + 1)),
    WithPrevious(HttpBody(TRUE, "d1", "rephrase", HelloWorld),
                 [i \in 1..MAX_PREVIOUS_RESULTS |-> Ok]),
    WithPrevious(HttpBody(TRUE, "d1", "rephrase", HelloWorld),
                 [i \in 1..(MAX_PREVIOUS_RESULTS + 1) |-> Ok]),
    WithPrevious(HttpBody(TRUE, "d1", "rephrase", Hello),
                 <<Ok, Chars(MAX_PREVIOUS_RESULT_LENGTH, "x")>>),
    WithPrevious(HttpBody(TRUE, "d1", "rephrase", Hello),
                 <<Ok, Chars(MAX_PREVIOUS_RESULT_LENGTH + 1, "x")>>) }
ValidateBodies == WordBodies \cup LimitBodies

NextValidate ==
  Streaming(ValidateBodies, Deltas, {"Error: connect ETIMEDOUT"})

SpecValidate == InitStream /\ [][NextValidate]_vars

-----------------------------------------------------------------------------
(* SpecSolo: one streaming request alone with the store, while time passes  *)

SoloTimes == {Epoch + 1, Epoch + 2}

NextSolo ==
  \/ StreamingOf(1, {HttpBody(TRUE, "d1", "rephrase", HelloWorld)}, Deltas,
                 ProviderErrors)
  \/ Tick(SoloTimes)

SpecSolo == InitStream /\ [][NextSolo]_vars

-----------------------------------------------------------------------------
(* SpecPair: concurrent streaming requests of one device, every outcome of  *)
(* the provider and of the commit writes                                    *)

NextPair ==
  Streaming({HttpBody(TRUE, "d1", "rephrase", HelloWorld)}, Deltas, ProviderErrors)

SpecPair == InitStream /\ [][NextPair]_vars

-----------------------------------------------------------------------------
(* SpecLive: streaming requests whose every await settles: the provider     *)
(* call and its stream either complete or raise, and store operations       *)
(* return, so a request that can take a step eventually takes one           *)

StepsOf(r) == StreamingOf(r, Bodies, Deltas, ProviderErrors)

NextLive == \E r \in ReqIds : StepsOf(r)

SpecLive ==
  /\ InitStream
  /\ [][NextLive]_vars
  /\ \A r \in ReqIds : WF_vars(StepsOf(r))

-----------------------------------------------------------------------------
(* SpecRejects: the five claims of a device that has just claimed its daily *)
(* credits and the setup reward, watched 4 ads and claimed 2 bonus ads      *)

WornDevice ==
  [ RegisteredDevice EXCEPT
      !.credits = DAILY_REWARD + ONE_TIME_REWARD
                    + (AD_WATCH_CAP - 1) * AD_WATCH_REWARD
                    + (BONUS_AD_CAP - 1) * BONUS_AD_REWARD,
      !.lastCreditClaimDate = "2026-02-13",
      !.lastCreditClaimTimestamp = Epoch,
      !.hasClaimedKeyboardSetupReward = TRUE,
      !.adWatchSessionsToday = AD_WATCH_CAP - 1,
      !.lastAdWatchResetTimestamp = Epoch,
      !.bonusAdClaimsToday = BONUS_AD_CAP - 1,
      !.lastBonusAdResetTimestamp = Epoch ]

InitRejects ==
  /\ InitRequests
  /\ devices = <<WornDevice>>
  /\ toolUsage = EmptyBag
  /\ env = Configured

RejectCalls ==
  /\ Len(trace) < MaxClaimCalls
  /\ \/ ClaimDailyCredits("d1", "2026-02-14")
     \/ ClaimKeyboardSetupReward("d1")
     \/ ClaimAdWatchReward("d1")
     \/ ClaimBonusAdReward("d1")
     \/ ClaimReviewReward("d1")

NextRejects == RejectCalls \/ Tick(ClaimTimes)

SpecRejects == InitRejects /\ [][NextRejects]_vars

-----------------------------------------------------------------------------
(* SpecRace: claims issued at one instant, each one transaction, while two  *)
(* streaming requests of the same device (Pro or not) are in flight; the    *)
(* daily claim is due                                                       *)

InitRace ==
  /\ req = [r \in ReqIds |-> IdleReq]
  /\ trace = <<>>
  /\ now = Epoch + TWENTY_FOUR_HOURS
  /\ env = Configured
  /\ \E pro \in BOOLEAN : devices = <<UsedDevice(InitCredits, pro)>>
  /\ toolUsage = UsedLedger(InitCredits)

RaceCalls ==
  /\ Len(trace) < MaxRaceCalls
  /\ \/ ClaimDailyCredits("d1", "2026-02-14")
     \/ ClaimAdWatchReward("d1")
     \/ ClaimReviewReward("d1")

NextRace ==
  \/ Streaming({HttpBody(TRUE, "d1", "rephrase", HelloWorld)}, {Ok},
               {"Error: connect ETIMEDOUT"})
  \/ RaceCalls

SpecRace == InitRace /\ [][NextRace]_vars

-----------------------------------------------------------------------------
(* The claims                                                              *)

\* the calls of op for device d that returned (did not throw), by position
CallsOf(op, d) ==
  {i \in DOMAIN trace :
     trace[i].op = op /\ trace[i].deviceId = d /\ trace[i].outcome = "ok"}

HttpReqs == {r \in ReqIds : req[r].kind = "http"}
EventTypes(r) == {req[r].events[i].type : i \in DOMAIN req[r].events}

\* C1: in every reachable state every device's credits is >= 0, under any
\* interleaving of registration, claims, executions (both paths, concurrent
\* ones included) and webhook events.
CreditsNonNegative == \A i \in DOMAIN devices : devices[i].credits >= 0

\* C1 witness: a request of a non-Pro device passed the credit check, and its
\* deductCredit then found the balance already at 0 (nothing was taken).
DeductFoundNoCredit ==
  \E r \in ReqIds :
    /\ req[r].pc = "logging"
    /\ req[r].device # Null /\ ~req[r].device.isPro
    /\ req[r].charged = 0
    /\ CreditsOf(devices, req[r].deviceId) = 0

\* C2: an execution whose provider call raised an error took no credit and
\* appended no usage record.
ProviderFailureCommitsNothing ==
  \A r \in ReqIds :
    req[r].failed = "provider" => req[r].charged = 0 /\ req[r].logged = 0

\* C2 witness: a provider stream raised an error after a chunk was delivered,
\* closing a request of a non-Pro device that held a credit.
StreamFailedMidway ==
  \E r \in HttpReqs :
    /\ req[r].failed = "provider" /\ req[r].pc = "done"
    /\ "chunk" \in EventTypes(r)
    /\ ~req[r].device.isPro /\ req[r].device.credits > 0

\* C3 (as claimed): a streaming request takes a credit only if non-empty text
\* was delivered to its caller, in a chunk event or in the done event.
NoOutputNoCharge ==
  \A r \in HttpReqs :
    req[r].charged > 0 =>
      \E i \in DOMAIN req[r].events :
        /\ req[r].events[i].type \in {"chunk", "done"}
        /\ req[r].events[i].text # <<>>

\* C4 (as claimed): the events of a streaming request are chunk events
\* followed by exactly one terminal event, done or error, and nothing after.
OneTerminalEvent ==
  \A r \in HttpReqs :
    req[r].response = EventStream =>
      /\ \A i \in DOMAIN req[r].events :
           req[r].events[i].type # "chunk" => i = Len(req[r].events)
      /\ req[r].pc = "done" =>
           /\ req[r].events # <<>>
           /\ req[r].events[Len(req[r].events)].type \in {"done", "error"}

\* C5 (as claimed): when a commit write fails after the done event, no error
\* event reaches the caller.
CommitFailureSwallowed ==
  \A r \in HttpReqs :
    req[r].failed = "write" => "error" \notin EventTypes(r)

\* C6 (as claimed): with the kill switch engaged every request to the
\* streaming endpoint is answered service_unavailable, whatever its body.
KillSwitchFirst ==
  env.KILL_SWITCH =>
    \A r \in HttpReqs : req[r].response = HttpError(503, "service_unavailable")

\* C7 (as claimed): with the kill switch engaged no execution request, on
\* either path, queries the store, calls the provider, takes a credit or
\* appends a usage record.
KillSwitchIsolates ==
  env.KILL_SWITCH =>
    \A r \in ReqIds :
      /\ req[r].queries = 0 /\ req[r].provider = 0
      /\ req[r].charged = 0 /\ req[r].logged = 0

\* C8: for each one-time reward, exactly the first call returns claimed=true
\* and adds 20 credits, every later call returns claimed=false and leaves the
\* credits unchanged, and the flag, once set by that first call, stays set
\* through every later operation.
OneTimeRewardsOnce ==
  \A op \in {"claimKeyboardSetupReward", "claimReviewReward"} :
    LET S == CallsOf(op, "d1") IN
    /\ \A i \in S :
         LET first == \A j \in S : i <= j IN
         /\ trace[i].claimed = first
         /\ trace[i].after = trace[i].before + (IF first THEN 20 ELSE 0)
         /\ trace[i].credits = trace[i].after
    /\ \A k \in by_deviceId("d1") :
         (IF op = "claimKeyboardSetupReward"
          THEN devices[k].hasClaimedKeyboardSetupReward
          ELSE devices[k].hasClaimedReviewReward) = (S # {})

\* C8 witness: both rewards were claimed, a second setup claim was rejected,
\* and a registration or webhook call came after the first claim.
OneTimeClaimedTwice ==
  \E i, j, k \in DOMAIN trace :
    /\ i < j /\ j < k
    /\ trace[i].op = "claimKeyboardSetupReward" /\ trace[i].claimed
    /\ trace[j].op \in {"registerDevice", "webhook"}
    /\ trace[k].op = "claimKeyboardSetupReward" /\ ~trace[k].claimed

WindowCapped(op, cap, reward) ==
  LET S == CallsOf(op, "d1") IN
  \A i \in S :
    (\A j \in S : j < i => trace[i].at - trace[j].at >= 24 * 60 * 60 * 1000) =>
      \A k \in S :
        (k >= i /\ trace[k].at - trace[i].at < 24 * 60 * 60 * 1000) =>
          LET n == Cardinality({m \in S : i <= m /\ m <= k}) IN
          /\ trace[k].claimed = (n <= cap)
          /\ trace[k].after = trace[k].before + (IF n <= cap THEN reward ELSE 0)
          /\ trace[k].credits = trace[k].after

\* C10: of the ad-watch claims made less than 24h after the first claim of a
\* window (a claim with no ad-watch claim in the 24h before it), the first
\* five return claimed=true and add 5 credits each and the sixth returns
\* claimed=false with the credits unchanged; likewise the bonus-ad reward
\* accepts the first three (10 credits each) and rejects the fourth.
RollingCapsInWindow ==
  /\ WindowCapped("claimAdWatchReward", 5, 5)
  /\ WindowCapped("claimBonusAdReward", 3, 10)

\* C10 witness: six ad-watch claims within 24h, the sixth rejected.
SixAdWatchClaims ==
  LET S == CallsOf("claimAdWatchReward", "d1") IN
  \E i, k \in S :
    /\ Cardinality({m \in S : i <= m /\ m <= k}) = 6
    /\ trace[k].at - trace[i].at < TWENTY_FOUR_HOURS
    /\ trace[k].at > trace[i].at
    /\ ~trace[k].claimed
    /\ \A m \in S : (i <= m /\ m < k) => trace[m].claimed

\* the call that opened the window in force after the first i calls of the
\* trace: the first call of op, then each call of op made at least 24h after
\* the call that opened the window before it (0: no window yet)
RECURSIVE AnchorIdx(_, _)
AnchorIdx(op, i) ==
  IF i = 0 THEN 0
  ELSE LET a == AnchorIdx(op, i - 1) IN
       IF i \notin CallsOf(op, "d1") THEN a
       ELSE IF a = 0 \/ trace[i].at - trace[a].at >= 24 * 60 * 60 * 1000 THEN i
       ELSE a

WindowAnchored(op, timestamp, counter) ==
  LET a == AnchorIdx(op, Len(trace)) IN
  /\ \A k \in by_deviceId("d1") :
       /\ devices[k][timestamp] = IF a = 0 THEN Undefined ELSE trace[a].at
       /\ devices[k][counter] =
            Cardinality({i \in CallsOf(op, "d1") : a # 0 /\ i >= a /\ trace[i].claimed})
  /\ \A i \in DOMAIN trace : AnchorIdx(op, i) = i /\ i \in CallsOf(op, "d1") => trace[i].claimed

\* C11: the stored reset timestamp is the time of the first claim of the
\* window in force (later accepted or rejected claims of that window leave it
\* unchanged), the stored counter counts the claims accepted since, and a
\* claim made at least 24h after the window's first claim is accepted and
\* opens the next window, whether or not the cap had been reached.
RollingWindowAnchored ==
  /\ WindowAnchored("claimAdWatchReward", "lastAdWatchResetTimestamp",
                    "adWatchSessionsToday")
  /\ WindowAnchored("claimBonusAdReward", "lastBonusAdResetTimestamp",
                    "bonusAdClaimsToday")

\* C11 witness: five ad-watch claims accepted in one window, the last of them
\* after the first, a sixth rejected, and a seventh, 24h after the first,
\* accepted: the counter is 1 and the reset timestamp is the seventh's time.
NewWindowAfterCap ==
  LET S == CallsOf("claimAdWatchReward", "d1") IN
  \E i, j, k \in S :
    /\ i < j /\ j < k
    /\ \A m \in S : i <= m /\ m <= k
    /\ trace[i].at < trace[j].at
    /\ ~trace[j].claimed
    /\ trace[k].claimed /\ trace[k].at - trace[i].at >= TWENTY_FOUR_HOURS
    /\ \A n \in by_deviceId("d1") :
         /\ devices[n].adWatchSessionsToday = 1
         /\ devices[n].lastAdWatchResetTimestamp = trace[k].at

\* C12: in every reachable state adWatchSessionsToday <= 5 and
\* bonusAdClaimsToday <= 3 for every device.
CountersWithinCaps ==
  \A i \in DOMAIN devices :
    /\ devices[i].adWatchSessionsToday <= 5
    /\ devices[i].bonusAdClaimsToday <= 3

\* C12 witness: the bonus-ad counter stands at 3 after a fourth claim was
\* rejected, ad-watch claims were made too, and 24h have passed since.
BonusCapReached ==
  \E i \in CallsOf("claimBonusAdReward", "d1") :
    /\ ~trace[i].claimed
    /\ now - trace[i].at >= TWENTY_FOUR_HOURS
    /\ \A n \in by_deviceId("d1") :
         /\ devices[n].bonusAdClaimsToday = 3
         /\ devices[n].adWatchSessionsToday >= 1

\* the record of the call the step just made
LastCall == trace'[Len(trace')]

\* what a registration that returned must have done
Registered(d, rc) ==
  IF by_deviceId(d) # {}
  THEN /\ Len(devices') = Len(devices)
       /\ \A k \in DOMAIN devices :
            IF k \in by_deviceId(d)
            THEN /\ LastCall.credits = devices[k].credits
                 /\ LastCall.isPro = devices[k].isPro
                 /\ \A f \in DOMAIN devices[k] \ {"revenueCatId"} :
                      devices'[k][f] = devices[k][f]
                 /\ devices'[k].revenueCatId =
                      IF rc \notin {NoString, ""} /\ rc # devices[k].revenueCatId
                      THEN rc ELSE devices[k].revenueCatId
            ELSE devices'[k] = devices[k]
  ELSE /\ Len(devices') = Len(devices) + 1
       /\ \A k \in DOMAIN devices : devices'[k] = devices[k]
       /\ LET new == devices'[Len(devices')] IN
          /\ new.deviceId = d
          /\ new.credits = 0 /\ ~new.isPro
          /\ ~new.hasClaimedKeyboardSetupReward /\ ~new.hasClaimedReviewReward
          /\ new.adWatchSessionsToday = 0 /\ new.bonusAdClaimsToday = 0
       /\ LastCall.credits = 0 /\ ~LastCall.isPro

\* C13: a registration of an already-registered deviceId creates no record,
\* returns the stored credits and isPro, changes no field but the billing id,
\* and changes that only to a supplied billing id differing from the stored
\* one; a first registration appends a record with credits 0, isPro false,
\* both flags false and both counters 0.
RegistrationIdempotent ==
  [][\A reg \in Registrations :
       (RegisterDevice(reg[1], reg[2]) /\ LastCall.outcome = "ok")
         => Registered(reg[1], reg[2])]_vars

\* C13 witness: d1 registered, rewarded and made Pro, then registered again
\* with a billing id: one record, 20 credits and isPro returned, the billing
\* id stored.
RegisteredAgain ==
  /\ Len(trace) = 4
  /\ trace[1].op = "registerDevice" /\ trace[1].deviceId = "d1"
  /\ trace[1].arg = NoString /\ trace[1].outcome = "ok"
  /\ trace[4].op = "registerDevice" /\ trace[4].deviceId = "d1"
  /\ trace[4].arg = "rc1" /\ trace[4].outcome = "ok"
  /\ trace[4].credits = 20 /\ trace[4].isPro
  /\ Len(devices) = 1 /\ devices[1].revenueCatId = "rc1"

\* the step is the webhook call made with this request
Delivered(request) ==
  /\ LastCall.op = "webhook" /\ LastCall.arg = request.type
  /\ LastCall.deviceId = request.app_user_id
  /\ Webhook(request)

\* an authenticated, well-formed webhook request
WellFormed(request) ==
  /\ env.REVENUECAT_WEBHOOK_SECRET /\ request.auth = "ok"
  /\ request.json /\ request.object /\ request.event
  /\ request.app_user_id # ""

\* the device an identifier resolves to: the one carrying it as billing id,
\* else the one carrying it as device id
Resolved(X) ==
  IF by_revenueCatId(X) # {}
  THEN IF Cardinality(by_revenueCatId(X)) = 1 THEN by_revenueCatId(X) ELSE {}
  ELSE IF Cardinality(by_deviceId(X)) = 1 THEN by_deviceId(X) ELSE {}

Grants == {"INITIAL_PURCHASE", "RENEWAL", "PRODUCT_CHANGE", "UNCANCELLATION", "TRANSFER"}

\* C14: an authenticated event sets isPro of the device its identifier
\* resolves to: to true for INITIAL_PURCHASE, RENEWAL, PRODUCT_CHANGE,
\* UNCANCELLATION and TRANSFER, to false for EXPIRATION, and leaves it as it
\* is for CANCELLATION, BILLING_ISSUE and unknown types; nothing else changes
\* isPro of a device.  So isPro is true iff the most recent of the six
\* types was not EXPIRATION.
ProFollowsEvents ==
  [][/\ \A request \in SubsRequests :
          (Delivered(request) /\ WellFormed(request)) =>
            \A k \in Resolved(request.app_user_id) :
              devices'[k].isPro =
                IF request.type \in Grants THEN TRUE
                ELSE IF request.type = "EXPIRATION" THEN FALSE
                ELSE devices[k].isPro
     /\ \A k \in DOMAIN devices :
          devices'[k].isPro # devices[k].isPro =>
            \E request \in SubsRequests :
              /\ Delivered(request) /\ WellFormed(request)
              /\ request.type \in Grants \cup {"EXPIRATION"}
              /\ k \in Resolved(request.app_user_id)]_vars

\* C14 witness: d1 registered, then INITIAL_PURCHASE, CANCELLATION and
\* EXPIRATION for d1, each answered 200; d1 ends with isPro false.
PurchaseCancelExpire ==
  /\ Len(trace) = 4
  /\ trace[1].op = "registerDevice" /\ trace[1].deviceId = "d1"
  /\ \A i \in 2..4 :
       trace[i].op = "webhook" /\ trace[i].deviceId = "d1" /\ trace[i].status = 200
  /\ trace[2].arg = "INITIAL_PURCHASE" /\ trace[2].isPro
  /\ trace[3].arg = "CANCELLATION"
  /\ trace[4].arg = "EXPIRATION"
  /\ \A k \in by_deviceId("d1") : ~devices[k].isPro

\* C15 (as claimed): every webhook request with the correct bearer secret and
\* a body with an event type and an app_user_id is answered 200.
WebhookAlwaysAcknowledged ==
  [][\A request \in SubsRequests :
       (Delivered(request) /\ WellFormed(request)) => LastCall.status = 200]_vars

\* C16 (as claimed): an applied event for identifier X sets isPro of a device
\* whose billing id is X when there is one, leaving a device whose deviceId
\* is X unchanged; otherwise of the device whose deviceId is X; it creates no
\* record, changes nothing when neither exists, and changes at most one
\* device.
BillingIdFirst ==
  [][\A request \in SubsRequests :
       (/\ Delivered(request) /\ WellFormed(request)
        /\ request.type \in Grants \cup {"EXPIRATION"}) =>
         LET X == request.app_user_id
             B == by_revenueCatId(X)
             D == by_deviceId(X)
             changed == {k \in DOMAIN devices : devices'[k] # devices[k]}
         IN /\ Len(devices') = Len(devices)
            /\ Cardinality(changed) <= 1
            /\ B # {} =>
                 /\ \E k \in B : devices'[k].isPro = (request.type \in Grants)
                 /\ \A k \in D \ B : devices'[k] = devices[k]
            /\ (B = {} /\ D # {}) =>
                 \A k \in D : devices'[k].isPro = (request.type \in Grants)
            /\ (B = {} /\ D = {}) => devices' = devices]_vars

RefusedWithErrorCode ==
  \A r \in ReqIds :
    (req[r].pc = "done" /\ req[r].queries = 1 /\ req[r].device = Null) =>
      /\ req[r].response.error =
           IF by_deviceId(req[r].deviceId) = {} THEN "device_not_found"
           ELSE "no_credits"
      /\ req[r].provider = 0 /\ req[r].charged = 0 /\ req[r].logged = 0

\* the step is this call of the credit-check endpoint
CheckedCredits(body) ==
  /\ Len(trace') = Len(trace) + 1
  /\ LastCall.op = "checkCredits"
  /\ CheckCredits(body)

\* C19: with the kill switch off, the credit check answers success iff the
\* device is registered and isPro or credits > 0, no_credits for another
\* registered device and device_not_found for an unregistered one; a
\* streaming request for that device waiting at authorization would pass in
\* the same state iff the check succeeds; and the check changes neither the
\* devices nor the usage records.
CreditCheckReadsOnly ==
  [][\A body \in {[json |-> TRUE, deviceId |-> "d1"]} :
       CheckedCredits(body) =>
         /\ devices' = devices /\ toolUsage' = toolUsage
         /\ ~env.KILL_SWITCH =>
              /\ LastCall.status =
                   IF by_deviceId(body.deviceId) = {} THEN 401
                   ELSE IF \E k \in by_deviceId(body.deviceId) :
                             devices[k].isPro \/ devices[k].credits > 0
                        THEN 200 ELSE 402
              /\ LastCall.error =
                   IF LastCall.status = 401 THEN "device_not_found"
                   ELSE IF LastCall.status = 402 THEN "no_credits" ELSE "none"
              /\ \A r \in HttpReqs :
                   (req[r].pc = "authorizing" /\ req[r].deviceId = body.deviceId) =>
                     ((LastCall.status = 200) <=>
                        ENABLED (HttpAuthorize(r) /\ req'[r].pc = "rateChecking"))]_vars

\* C19 witness: the credit check answered no_credits for d1, registered with
\* no credits and not Pro, and a streaming request for d1 was refused with
\* no_credits as well; the store is as it was.
CheckedAndRefused ==
  /\ \E i \in DOMAIN trace :
       /\ trace[i].op = "checkCredits" /\ trace[i].deviceId = "d1"
       /\ trace[i].status = 402 /\ trace[i].error = "no_credits"
  /\ \E r \in HttpReqs : req[r].response = HttpError(402, "no_credits")
  /\ devices = <<UsedDevice(0, FALSE)>>

\* the device's usage records of the trailing 60 seconds
RecentCount(d) ==
  Cardinality(UNION {{<<u, i>> : i \in 1..CopiesIn(u, toolUsage)} :
                       u \in {v \in BagToSet(toolUsage) :
                                v.deviceId = d /\ now - v.createdAt <= 60 * 1000}})

\* C20: the burst check of a streaming request, Pro or not, rejects with
\* rate_limited iff the device has more than 15 usage records with
\* createdAt >= now - 60s (exactly 15 are admitted); the check changes no
\* state, and a rejected request has called no provider, taken no credit and
\* appended no record.
BurstLimitForAll ==
  [][\A r \in ReqIds :
       /\ HttpBurstCheck(r) =>
            /\ (req'[r].response = HttpError(429, "rate_limited"))
                  <=> (RecentCount(req[r].deviceId) > 15)
            /\ RecentCount(req[r].deviceId) > 15 => req'[r].pc = "done"
            /\ RecentCount(req[r].deviceId) <= 15 => req'[r].pc # "done"
            /\ devices' = devices /\ toolUsage' = toolUsage
       /\ req'[r].response = HttpError(429, "rate_limited") =>
            /\ req'[r].pc = "done"
            /\ req'[r].provider = 0 /\ req'[r].charged = 0 /\ req'[r].logged = 0]_vars

\* C20 witness: a request of a Pro device was rejected with 16 records in
\* the window, and a later one was admitted with exactly 15.
RejectedAtSixteen ==
  \E r1, r2 \in HttpReqs :
    /\ req[r1].response = HttpError(429, "rate_limited")
    /\ req[r1].device.isPro
    /\ req[r2].pc = "dailyChecking" /\ req[r2].queries = 2
    /\ RecentCount("d1") = 15

\* the device's usage records of the trailing 24 hours
DayCount(d) ==
  Cardinality(UNION {{<<u, i>> : i \in 1..CopiesIn(u, toolUsage)} :
                       u \in {v \in BagToSet(toolUsage) :
                                v.deviceId = d /\ now - v.createdAt <= 24 * 60 * 60 * 1000}})

\* C21: a request that passed the burst check goes through the daily check
\* iff the device read at authorization is Pro; the daily check rejects with
\* daily_limit_exceeded iff the device has more than 500 usage records in the
\* trailing 24 hours; so no request of a non-Pro device ends with
\* daily_limit_exceeded.
DailyCapForProOnly ==
  [][\A r \in ReqIds :
       /\ (HttpBurstCheck(r) /\ req'[r].response # HttpError(429, "rate_limited")) =>
            ((req'[r].pc = "dailyChecking") <=> req[r].device.isPro)
       /\ HttpDailyCheck(r) =>
            /\ (req'[r].response = HttpError(429, "daily_limit_exceeded"))
                  <=> (DayCount(req[r].deviceId) > 500)
            /\ DayCount(req[r].deviceId) <= 500 => req'[r].pc # "done"
       /\ req'[r].response = HttpError(429, "daily_limit_exceeded") =>
            /\ req'[r].device.isPro /\ req'[r].queries = 3
            /\ req'[r].pc = "done" /\ req'[r].provider = 0]_vars

\* C21 witness: a request of a Pro device was rejected with 501 records in
\* the 24 hours, and a later one passed the daily check with exactly 500.
RejectedAtFiveHundredOne ==
  \E r1, r2 \in HttpReqs :
    /\ req[r1].response = HttpError(429, "daily_limit_exceeded")
    /\ req[r2].device # Null /\ req[r2].device.isPro
    /\ req[r2].pc = "creating" /\ req[r2].queries = 3
    /\ DayCount("d1") = 500

\* the texts of the chunk events of a stream, concatenated in order
RECURSIVE ChunkTexts(_)
ChunkTexts(events) ==
  IF events = <<>> THEN <<>>
  ELSE IF Head(events).type = "chunk" THEN Head(events).text \o ChunkTexts(Tail(events))
  ELSE ChunkTexts(Tail(events))

\* C22: every non-empty fragment the provider emits is delivered as one chunk
\* event carrying its text, appended after the events already sent; when the
\* provider completes, only chunk events have been sent, and one done event
\* follows whose fullText is the concatenation of the fragments when that text
\* holds no JSON object and is not longer than the cap.
FragmentsThenDone ==
  [][\A r \in ReqIds :
       /\ \A delta \in Fragments \ {<<>>} :
            HttpChunk(r, delta) =>
              req'[r].events = Append(req[r].events, ChunkEvent(delta))
       /\ HttpStreamEnds(r) =>
            LET sent == req[r].events
                text == ChunkTexts(sent)
            IN /\ \A i \in DOMAIN sent : sent[i].type = "chunk"
               /\ Len(req'[r].events) = Len(sent) + 1
               /\ SubSeq(req'[r].events, 1, Len(sent)) = sent
               /\ req'[r].events[Len(sent) + 1].type = "done"
               /\ ((\A i \in DOMAIN text : text[i] # "{") /\ Len(text) <= 5000)
                    => req'[r].events[Len(sent) + 1].text = text]_vars
HelLoDelivered ==
  \E r \in HttpReqs :
    req[r].events = <<ChunkEvent(Hel), ChunkEvent(lo), DoneEvent(Hel \o lo)>>

\* C26: the fullText of a done event is never longer than the 5000-character
\* cap plus the three characters of the ellipsis.
DoneTextCapped ==
  \A r \in HttpReqs : \A i \in DOMAIN req[r].events :
    req[r].events[i].type = "done" => Len(req[r].events[i].text) <= 5000 + 3

\* C23: once the caller has cancelled the stream of a request that had not
\* finished, that request decrements no credit and appends no usage record.
CancelledNeverCommits ==
  [][\A r \in ReqIds :
       req[r].cancelled =>
         /\ req'[r].charged = req[r].charged
         /\ req'[r].logged = req[r].logged]_vars

\* the number of words of a text: its maximal runs of non-whitespace
Words(s) ==
  Cardinality({i \in 1..Len(s) : ~IsSpace(s[i]) /\ (i = 1 \/ IsSpace(s[i - 1]))})

\* C24: a request whose input reaches the word count is refused with too_short
\* exactly when it has fewer than 2 words (generic tool), or a number of words
\* other than 1 (find-synonyms).
WordCountValidation ==
  [][\A r \in ReqIds : \A body \in WordBodies :
       HttpReceive(r, body) =>
         ((req'[r].response = HttpError(400, "too_short")) <=>
            IF body.toolId = "find-synonyms"
            THEN Words(body.userInput) # 1
            ELSE Words(body.userInput) < 2)]_vars

\* the error codes of user-input errors
UserInputErrors ==
  { "invalid_json", "missing_fields", "input_too_long",
    "too_many_previous_results", "previous_result_too_long", "too_short" }

\* C25: a streaming request answered with a user-input error has looked up no
\* device, queried no usage, called no provider and written nothing, and the
\* step that refuses it leaves the store unchanged; the length and count
\* errors are those of inputs over 6000 characters, more than 5 previous
\* results, and previous results over 2000 characters.
UserInputErrorsFirst ==
  [][\A r \in ReqIds :
       /\ (req'[r].kind = "http" /\ req'[r].response.error \in UserInputErrors) =>
            /\ req'[r].pc = "done" /\ req'[r].response.status = 400
            /\ req'[r].device = Null /\ req'[r].queries = 0
            /\ req'[r].provider = 0 /\ req'[r].events = <<>>
            /\ req'[r].charged = 0 /\ req'[r].logged = 0
            /\ (req[r].pc = "idle" => devices' = devices /\ toolUsage' = toolUsage)
       /\ \A body \in ValidateBodies :
            (HttpReceive(r, body) /\ body.json) =>
              LET error == req'[r].response.error
                  present == body.deviceId # "" /\ body.toolId # "" /\ body.userInput # <<>>
                  previous == body.previousResults
              IN /\ error = "missing_fields" <=> ~present
                 /\ error = "input_too_long" <=> (present /\ Len(body.userInput) > 6000)
                 /\ error = "too_many_previous_results" <=>
                      (present /\ Len(body.userInput) <= 6000 /\ Len(previous) > 5)
                 /\ error = "previous_result_too_long" <=>
                      /\ present /\ Len(body.userInput) <= 6000 /\ Len(previous) <= 5
                      /\ \E i \in DOMAIN previous : Len(previous[i]) > 2000]_vars
RefusedBeforeLookup ==
  /\ req[1].response = HttpError(400, "input_too_long")
  /\ req[2].response = HttpError(400, "previous_result_too_long")
  /\ devices = <<UsedDevice(InitCredits, FALSE)>>

\* the request has sent its done event
DoneSent(r) == \E i \in DOMAIN req[r].events : req[r].events[i].type = "done"

\* C27: in an execution that runs alone, the credit is decremented by exactly 1,
\* for a device that is not Pro only, after the done event and before the
\* usage record; the usage record (deviceId, toolId, now) is appended once,
\* after the done event; a request that ends without error has committed
\* exactly that.
CommitExactlyOnce ==
  [][\A r \in ReqIds :
       /\ HttpDeduct(r) =>
            /\ DoneSent(r) /\ req[r].logged = 0 /\ req[r].charged = 0
            /\ ~devices[1].isPro
            /\ devices'[1].credits = devices[1].credits - 1
            /\ toolUsage' = toolUsage
       /\ HttpLog(r) =>
            /\ DoneSent(r) /\ req[r].logged = 0
            /\ req[r].charged = IF devices[1].isPro THEN 0 ELSE 1
            /\ devices' = devices
            /\ toolUsage' = toolUsage (+) SetToBag({[deviceId |-> "d1",
                                                     toolId |-> "rephrase",
                                                     createdAt |-> now]})
       /\ devices' # devices => \E q \in ReqIds : HttpDeduct(q)
       /\ toolUsage' # toolUsage => \E q \in ReqIds : HttpLog(q)
       /\ (req'[r].pc = "done" /\ req'[r].failed = "none" /\ DoneSent(r)) =>
            /\ req'[r].logged = 1
            /\ req'[r].charged = IF devices[1].isPro THEN 0 ELSE 1
            /\ devices'[1].credits = InitCredits - req'[r].charged
            /\ BagCardinality(toolUsage') = BagCardinality(UsedLedger(InitCredits)) + 1]_vars
CommittedAlone ==
  /\ req[1].pc = "done" /\ req[1].failed = "none" /\ DoneSent(1)
  /\ ~devices[1].isPro /\ devices[1].credits = InitCredits - 1
  /\ CopiesIn([deviceId |-> "d1", toolId |-> "rephrase", createdAt |-> Epoch + 2],
              toolUsage) = 1

\* C28: no step lowers the credits of a device whose stored isPro flag is
\* true when the step is taken.
ProNeverDebited ==
  [][\A k \in DOMAIN devices :
       (k \in DOMAIN devices' /\ devices'[k].credits < devices[k].credits)
         => ~devices[k].isPro]_vars

RECURSIVE SumOver(_, _)
SumOver(S, f) ==
  IF S = {} THEN 0
  ELSE LET x == CHOOSE y \in S : TRUE IN f[x] + SumOver(S \ {x}, f)
Max(a, b) == IF a >= b THEN a ELSE b

\* every request is either not started or over
Quiescent == \A r \in ReqIds : req[r].pc \in {"idle", "done"}
\* the executions that passed the credit check
Admitted == {r \in HttpReqs : req[r].device # Null}
DoneDeliveries == Cardinality({r \in HttpReqs : DoneSent(r)})
Debited == SumOver(HttpReqs, [r \in ReqIds |-> req[r].charged])
WriteFailures == Cardinality({r \in HttpReqs : req[r].failed = "write"})

\* C29 (as claimed): when the executions of a non-Pro device that started with
\* c credits are over, the done deliveries exceed the credits debited by at
\* most max(0, k - c), k being the number of executions admitted.
OverspendBounded ==
  (Quiescent /\ ~devices[1].isPro) =>
    DoneDeliveries - Debited <= Max(0, Cardinality(Admitted) - InitCredits)

\* C29 (amended): the credits never go below 0 and fall by what was debited;
\* when the executions are over, the done deliveries exceed the credits
\* debited by at most max(0, k - c) plus the number of executions whose
\* commit write failed.
OverspendBoundedUpToFailures ==
  ~devices[1].isPro =>
    /\ devices[1].credits >= 0
    /\ devices[1].credits = InitCredits - Debited
    /\ Quiescent =>
         DoneDeliveries - Debited
           <= Max(0, Cardinality(Admitted) - InitCredits) + WriteFailures
TwoDoneOneCredit ==
  /\ Quiescent /\ ~devices[1].isPro /\ InitCredits = 1
  /\ DoneSent(1) /\ DoneSent(2)
  /\ req[1].logged = 1 /\ req[2].logged = 1
  /\ Debited = 1 /\ devices[1].credits = 0
  /\ BagCardinality(toolUsage) = BagCardinality(UsedLedger(InitCredits)) + 2

\* the stages a streaming request may enter from each stage
Stages ==
  [ idle |-> {"authorizing", "done"},
    authorizing |-> {"rateChecking", "done"},
    rateChecking |-> {"dailyChecking", "creating", "done"},
    dailyChecking |-> {"creating", "done"},
    creating |-> {"streaming", "done"},
    streaming |-> {"streaming", "deducting", "logging", "done"},
    deducting |-> {"logging", "done"},
    logging |-> {"done"},
    done |-> {} ]

\* C30: a streaming request moves through validation, authorization, the
\* rate checks, generation and commit in that order; the provider is called
\* only for a validated request whose credit/Pro check and rate checks (the
\* burst check, and the daily check for a Pro device) passed; a credit is
\* taken or a usage record appended only by a request whose credit/Pro check
\* passed and whose provider stream completed.
PipelineOrder ==
  [][\A r \in ReqIds : req'[r].kind = "http" =>
       /\ req'[r].pc # req[r].pc => req'[r].pc \in Stages[req[r].pc]
       /\ req'[r].provider > req[r].provider =>
            /\ req[r].pc = "creating" /\ req[r].provider = 0
            /\ req[r].response = EventStream
            /\ req[r].device # Null
            /\ req[r].device.isPro \/ req[r].device.credits > 0
            /\ req[r].queries = IF req[r].device.isPro THEN 3 ELSE 2
       /\ (req'[r].charged > req[r].charged \/ req'[r].logged > req[r].logged) =>
            /\ req[r].device # Null
            /\ req[r].device.isPro \/ req[r].device.credits > 0
            /\ req[r].provider = 1 /\ req[r].failed = "none"
            /\ DoneSent(r)
            /\ req[r].pc \in {"deducting", "logging"}
       /\ (devices' # devices \/ toolUsage' # toolUsage) =>
            \/ Len(trace') > Len(trace)
            \/ \E q \in ReqIds : req'[q].charged > req[q].charged
                                  \/ req'[q].logged > req[q].logged]_vars
WholePipeline ==
  \E r \in HttpReqs :
    /\ req[r].pc = "done" /\ req[r].failed = "none"
    /\ req[r].queries = 2 /\ req[r].provider = 1
    /\ req[r].charged = 1 /\ req[r].logged = 1

\* the caller has its answer: an error response, or a stream that ended with
\* a done or an error event
Answered(r) ==
  \/ req[r].response.status >= 400
  \/ /\ req[r].response = EventStream
     /\ EventTypes(r) \cap {"done", "error"} # {}

\* C31: the provider is called at most once per request, and every streaming
\* request that was received reaches its end, where the caller has a terminal
\* response or event.
EveryRequestTerminates ==
  /\ [](\A r \in ReqIds : req[r].provider <= 1)
  /\ \A r \in ReqIds :
       (req[r].pc # "idle") ~> (req[r].pc = "done" /\ Answered(r))
FailedAndClosed ==
  \E r \in HttpReqs :
    /\ req[r].pc = "done" /\ req[r].failed = "provider"
    /\ req[r].provider = 1 /\ req[r].chunks > 0
    /\ req[r].events[Len(req[r].events)] = ErrorEvent("ai_quota_exceeded")

\* the execution's provider output is complete: the done event was sent
\* (streaming endpoint), the completion resolved (action)
OutputComplete(r) ==
  /\ req[r].provider = 1 /\ req[r].failed = "none"
  /\ req[r].kind = "http" => DoneSent(r)

\* C32: no step removes or changes a usage record; a step that changes the
\* ledger adds exactly one record, (deviceId, toolId, now) of exactly one
\* execution, whose provider output was complete and which had appended none.
LedgerAppendOnly ==
  [][/\ \A u \in BagToSet(toolUsage) :
          /\ u \in BagToSet(toolUsage')
          /\ CopiesIn(u, toolUsage') >= CopiesIn(u, toolUsage)
     /\ toolUsage' # toolUsage =>
          \E r \in ReqIds :
            /\ toolUsage' = toolUsage (+) SetToBag({[deviceId |-> req[r].deviceId,
                                                     toolId |-> req[r].toolId,
                                                     createdAt |-> now]})
            /\ OutputComplete(r)
            /\ req[r].logged = 0 /\ req'[r].logged = 1
            /\ \A q \in ReqIds \ {r} : req'[q] = req[q]]_vars
RecordAppended ==
  \E r \in ReqIds :
    /\ req[r].logged = 1
    /\ CopiesIn([deviceId |-> "d1", toolId |-> "rephrase", createdAt |-> now], toolUsage) >= 1
    /\ now > Epoch
    /\ \E u \in BagToSet(toolUsage) : u.createdAt < Epoch
    /\ Len(trace) = 1

\* the ad-watch claims for d1 that returned claimed=true among calls i..k
AcceptedAdWatch(i, k) ==
  {m \in CallsOf("claimAdWatchReward", "d1") : i <= m /\ m <= k /\ trace[m].claimed}

\* C33 (as claimed): among the ad-watch claims of any interval shorter than
\* 24 hours, at most 5 return claimed=true.
AdWatchFivePerInterval ==
  \A i, k \in CallsOf("claimAdWatchReward", "d1") :
    (i <= k /\ trace[k].at - trace[i].at < 24 * 60 * 60 * 1000) =>
      Cardinality(AcceptedAdWatch(i, k)) <= 5

\* C33 (amended): an interval shorter than 24 hours meets at most two windows
\* of the counter (it contains at most one reset), and at most 5 of its claims
\* return claimed=true in each of them, each adding 5 credits.
AdWatchFivePerWindow ==
  \A i, k \in CallsOf("claimAdWatchReward", "d1") :
    (i <= k /\ trace[k].at - trace[i].at < 24 * 60 * 60 * 1000) =>
      LET A == AcceptedAdWatch(i, k)
          window(m) == AnchorIdx("claimAdWatchReward", m)
      IN /\ \A m \in A : window(m) \in {window(i), window(k)}
         /\ \A w \in {window(i), window(k)} :
              Cardinality({m \in A : window(m) = w}) <= 5
         /\ \A m \in A : trace[m].after = trace[m].before + 5
SixAcceptedAcrossReset ==
  \E i, k \in CallsOf("claimAdWatchReward", "d1") :
    /\ i < k /\ trace[k].at - trace[i].at < TWENTY_FOUR_HOURS
    /\ Cardinality(AcceptedAdWatch(i, k)) = 6
    /\ AnchorIdx("claimAdWatchReward", i) # AnchorIdx("claimAdWatchReward", k)

\* the credits a claim grants when it returns claimed=true
RewardOf(op) ==
  IF op = "claimDailyCredits" THEN 5
  ELSE IF op \in {"claimKeyboardSetupReward", "claimReviewReward"} THEN 20
  ELSE IF op = "claimAdWatchReward" THEN 5
  ELSE IF op = "claimBonusAdReward" THEN 10
  ELSE 0

\* the step is the deductCredit call of request r
DeductStepOf(r) == req[r].pc = "deducting" /\ req'[r].pc = "logging"

\* C34: a device is created with 0 credits, and every step changes its
\* credits by exactly: plus the reward, for a claim returning claimed=true;
\* minus 1, for a deductCredit call that finds credits > 0; nothing otherwise
\* (rejected claims, registerDevice, webhook events, every other step).
CreditConservation ==
  [][LET before == CreditsOf(devices, "d1")
         after == CreditsOf(devices', "d1")
     IN /\ (by_deviceId("d1") = {} /\ devices' # devices) => after = 0
        /\ IF Len(trace') = Len(trace) + 1
           THEN after = before + (IF LastCall.outcome = "ok" /\ LastCall.claimed
                                  THEN RewardOf(LastCall.op) ELSE 0)
           ELSE IF \E r \in ReqIds : DeductStepOf(r)
           THEN after = before - (IF before > 0 THEN 1 ELSE 0)
           ELSE after = before]_vars
GrantedAndSpent ==
  /\ Len(trace) = 1 /\ trace[1].op = "claimAdWatchReward" /\ trace[1].claimed
  /\ \E r \in ReqIds : req[r].charged = 1
  /\ \E c \in 0..InitCredits : CreditsOf(devices, "d1") = c + 5 - 1

ClaimOps ==
  { "claimDailyCredits", "claimKeyboardSetupReward", "claimReviewReward",
    "claimAdWatchReward", "claimBonusAdReward" }

\* C35: a claim that returns claimed=false leaves the whole devices table as
\* it was and returns the stored credits.
RejectedClaimsWriteNothing ==
  [][(/\ Len(trace') = Len(trace) + 1
      /\ LastCall.op \in ClaimOps
      /\ LastCall.outcome = "ok" /\ ~LastCall.claimed) =>
        /\ devices' = devices
        /\ LastCall.credits = CreditsOf(devices, LastCall.deviceId)]_vars
RejectedThenAllowed ==
  /\ \E i \in CallsOf("claimAdWatchReward", "d1") : ~trace[i].claimed
  /\ \E i, j \in CallsOf("claimDailyCredits", "d1") :
       /\ i < j /\ ~trace[i].claimed /\ trace[i].at = Epoch + TWENTY_FOUR_HOURS - 1
       /\ trace[j].claimed /\ trace[j].at = Epoch + TWENTY_FOUR_HOURS

\* C36: of the daily claims issued at one instant for a device whose claim is
\* due, the first to commit returns claimed=true and every other one
\* claimed=false, so 5 credits are added once; and each mutation works on the
\* credits stored when it commits: a claim adds its reward to them, a
\* deductCredit takes 1 from them, whatever was read earlier by the requests
\* in flight.
ConcurrentClaimsSerialized ==
  /\ [](LET S == CallsOf("claimDailyCredits", "d1") IN
         /\ \A i \in S : trace[i].claimed = (\A j \in S : i <= j)
         /\ Cardinality({i \in S : trace[i].claimed}) <= 1)
  /\ [][LET stored == devices[1].credits IN
         /\ Len(trace') = Len(trace) + 1 =>
              /\ LastCall.before = stored
              /\ devices'[1].credits =
                   stored + (IF LastCall.claimed THEN RewardOf(LastCall.op) ELSE 0)
         /\ (\E r \in ReqIds : DeductStepOf(r)) =>
              devices'[1].credits = IF stored > 0 THEN stored - 1 ELSE 0]_vars
ClaimsRacedWithDeduct ==
  /\ Cardinality(CallsOf("claimDailyCredits", "d1")) = 2
  /\ \E r \in ReqIds :
       /\ req[r].device # Null /\ req[r].device.credits = InitCredits
       /\ req[r].charged = 1
  /\ devices[1].credits = InitCredits + 5 - 1

\* the number of d1's usage records stamped in the 60 seconds from t on
RecordsFrom(t) ==
  Cardinality(UNION {{<<u, i>> : i \in 1..CopiesIn(u, toolUsage)} :
                       u \in {v \in BagToSet(toolUsage) :
                                /\ v.deviceId = "d1"
                                /\ t <= v.createdAt /\ v.createdAt <= t + 60 * 1000}})
\* the fullest 60-second window (a fullest window starts at a record)
FullestWindow ==
  LET counts == {RecordsFrom(u.createdAt) : u \in BagToSet(toolUsage)} IN
  IF counts = {} THEN 0 ELSE CHOOSE n \in counts : \A m \in counts : m <= n

\* the request passed the burst check and has not finished
Admitting(r) ==
  /\ req[r].kind = "http"
  /\ req[r].pc \in {"dailyChecking", "creating", "streaming", "deducting", "logging"}
\* no request is checked before the one admitted before it has finished
Sequential == \A r, q \in ReqIds : (Admitting(r) /\ Admitting(q)) => r = q

\* C37: in a run where no request is checked while another one, already
\* admitted, has not finished, no 60-second window ever holds more than 16 of
\* the device's usage records.
SequentialBurstBound == [](Sequential) => [](FullestWindow <= 16)
SeventeenInAMinute ==
  /\ FullestWindow = 17
  /\ \A r \in ReqIds : req[r].logged = 1 /\ req[r].queries >= 2

\* C38: no two device records share a deviceId; a step never removes a
\* record nor changes the deviceId or createdAt of one; the only step that
\* adds a record is a registerDevice call for a deviceId that has none, and
\* it adds exactly one, created now.
OneRecordPerDevice ==
  /\ [](\A i, j \in DOMAIN devices :
          devices[i].deviceId = devices[j].deviceId => i = j)
  /\ [][/\ Len(devices') >= Len(devices)
         /\ \A k \in DOMAIN devices :
              /\ devices'[k].deviceId = devices[k].deviceId
              /\ devices'[k].createdAt = devices[k].createdAt
         /\ Len(devices') > Len(devices) =>
              /\ Len(devices') = Len(devices) + 1
              /\ Len(trace') = Len(trace) + 1
              /\ LastCall.op = "registerDevice" /\ LastCall.outcome = "ok"
              /\ by_deviceId(LastCall.deviceId) = {}
              /\ devices'[Len(devices')].deviceId = LastCall.deviceId
              /\ devices'[Len(devices')].createdAt = now]_vars
RegisteredTwiceOneRecord ==
  /\ \E i, j \in CallsOf("registerDevice", "d1") : i < j /\ trace[i].at < trace[j].at
  /\ Len(devices) = 1
  /\ devices[1].deviceId = "d1" /\ devices[1].createdAt = Epoch
  /\ now > Epoch

\* C39: a webhook request adds no device and no usage record, leaves every
\* device other than the one its identifier resolves to as it is, and changes
\* no field of that one but isPro; a request that repeats the request just
\* before it (same type, same identifier, same answer) changes nothing.
WebhookTouchesOnlyIsPro ==
  [][\A request \in SubsRequests :
       Delivered(request) =>
         /\ Len(devices') = Len(devices)
         /\ toolUsage' = toolUsage
         /\ \A k \in DOMAIN devices :
              IF k \in Resolved(request.app_user_id)
              THEN \A f \in DOMAIN devices[k] \ {"isPro"} :
                     devices'[k][f] = devices[k][f]
              ELSE devices'[k] = devices[k]
         /\ ( /\ Len(trace) > 0
              /\ trace[Len(trace)].op = "webhook"
              /\ trace[Len(trace)].arg = request.type
              /\ trace[Len(trace)].deviceId = request.app_user_id
              /\ trace[Len(trace)].status = LastCall.status )
            => devices' = devices]_vars
\* C39 witness: d1 registered and rewarded, then TRANSFER for d1 delivered
\* twice, each answered 200: d1 is Pro with its 20 credits, flag and billing
\* id as before.
TransferredTwice ==
  /\ Len(trace) = 4
  /\ trace[1].op = "registerDevice" /\ trace[1].deviceId = "d1"
  /\ trace[2].op = "claimKeyboardSetupReward" /\ trace[2].claimed
  /\ \A i \in 3..4 :
       /\ trace[i].op = "webhook" /\ trace[i].arg = "TRANSFER"
       /\ trace[i].deviceId = "d1" /\ trace[i].status = 200
  /\ \A k \in by_deviceId("d1") :
       /\ devices[k].isPro /\ devices[k].credits = ONE_TIME_REWARD
       /\ devices[k].hasClaimedKeyboardSetupReward
       /\ devices[k].revenueCatId = trace[1].arg

====
